---- MODULE Spec2Model ----
(***************************************************************************)
(* Decision support tool: the multi-criteria scoring and explanation       *)
(* engine (scoring.js, analysis.js, utils.js) as run by processComparison. *)
(*                                                                         *)
(* Numbers.  A JavaScript number is modelled as an exact rational          *)
(* [t |-> "number", n |-> numerator, d |-> denominator] (d > 0).  Scores    *)
(* that the code rounds to two decimals (Math.round(x * 100) / 100) are    *)
(* kept as integers counting hundredths; weights are integers counting     *)
(* hundredths as well (0.6 is 60).  Math.round rounds half towards         *)
(* +infinity, which is what RoundHalfUp computes.                          *)
(***************************************************************************)
EXTENDS Integers, Sequences, FiniteSets, TLC

VARIABLES
  pc,                          \* position inside processComparison and scoreOptions
  options,                     \* the caller's input
  constraints,
  priorities,
  settings,
  constraintResults,           \* scoreOptions: const constraintResults = applyConstraints(...)
  scoredOptions,               \* scoreOptions: const scoredOptions = calculateWeightedScores(...)
  rankedOptions,               \* scoreOptions: const rankedOptions = scoredOptions.sort(...).map(...)
  scoringResults,              \* const scoringResults = scoreOptions(...)
  rankedOptionsWithTradeOffs,  \* const rankedOptionsWithTradeOffs = generateTradeOffAnalysis(...)
  summary,                     \* const summary = generateSummary(...)
  explanations,                \* const explanations = generateExplanations(...)
  req,                         \* handler: the request, [method, body]
  validation,                  \* handler: const validation = validateRequest(...)
  res                          \* handler: the responses sent, in order

input == <<options, constraints, priorities, settings>>
http == <<req, validation, res>>
vars == <<pc, options, constraints, priorities, settings, constraintResults,
          scoredOptions, rankedOptions, scoringResults,
          rankedOptionsWithTradeOffs, summary, explanations, req, validation, res>>

(***************************************************************************)
(* Bounds of the model and constants of the program                        *)
(***************************************************************************)
\* the cost values of the general specification are 0..MaxVal
MaxVal == 1
\* settings.max_results ranges over 1..MaxResults (or is not set)
MaxResults == 2
\* Math.round(x * 100) / 100: two decimals; a score of 100 is 100 * Hundred hundredths
Hundred == 100

(***************************************************************************)
(* JavaScript values                                                       *)
(***************************************************************************)
Undefined == [t |-> "undefined"]
Null == [t |-> "null"]
NaN == [t |-> "NaN"]
Num(x) == [t |-> "number", n |-> x, d |-> 1]
RECURSIVE Gcd(_, _)
\* the greatest common divisor of a natural number and a positive one
Gcd(a, b) == IF b = 0 THEN a ELSE Gcd(b, a % b)
\* the number x / y (y > 0), in lowest terms
Rat(x, y) ==
  LET g == Gcd(IF x < 0 THEN 0 - x ELSE x, y)
  IN [t |-> "number", n |-> x \div g, d |-> y \div g]
Str(chars) == [t |-> "string", s |-> chars]
Arr(elems) == [t |-> "array", a |-> elems]

IsNumber(v) == v.t = "number"

\* an array and an object built once: TLC evaluates a function constructor anew
\* at every application unless it is forced into a value
Array(f) == f \o <<>>
Object(f) == f @@ <<>>
\* the indices 1..n, as an array
Indices(n) == Array([i \in 1..n |-> i])

\* Math.round(num / den) for den > 0: floor(num/den + 1/2)
RoundHalfUp(num, den) == (2 * num + den) \div (2 * den)

RECURSIVE Digits(_)
\* the decimal digits of a natural number, as a sequence of characters
Digits(k) ==
  LET ch == <<"0", "1", "2", "3", "4", "5", "6", "7", "8", "9">>
  IN IF k < 10 THEN <<ch[k + 1]>> ELSE Digits(k \div 10) \o <<ch[(k % 10) + 1]>>

RECURSIVE JoinComma(_)
RECURSIVE JsString(_)
\* String(v), as a sequence of characters (integers only among the numbers)
JsString(v) ==
  CASE v.t = "number" -> IF v.n < 0 THEN <<"-">> \o Digits(0 - v.n) ELSE Digits(v.n)
    [] v.t = "string" -> v.s
    [] v.t = "null" -> <<"n", "u", "l", "l">>
    [] v.t = "undefined" -> <<"u", "n", "d", "e", "f", "i", "n", "e", "d">>
    [] v.t = "NaN" -> <<"N", "a", "N">>
    [] v.t = "boolean" -> IF v.b THEN <<"t", "r", "u", "e">>
                          ELSE <<"f", "a", "l", "s", "e">>
    [] v.t = "array" -> JoinComma(v.a)
\* Array.prototype.join(","): null and undefined elements render as empty
JoinComma(a) ==
  LET elem(e) == IF e.t \in {"null", "undefined"} THEN <<>> ELSE JsString(e)
  IN IF a = <<>> THEN <<>>
     ELSE IF Len(a) = 1 THEN elem(a[1])
     ELSE elem(a[1]) \o <<",">> \o JoinComma(Tail(a))

\* String.prototype.toLowerCase, on the characters the model uses
ToLowerCase(chars) ==
  LET lower(c) == CASE c = "A" -> "a" [] c = "B" -> "b" [] c = "N" -> "n"
                    [] c = "S" -> "s" [] c = "U" -> "u" [] OTHER -> c
  IN Array([i \in 1..Len(chars) |-> lower(chars[i])])

\* String.prototype.includes: needle occurs as a contiguous run in hay
Includes(hay, needle) ==
  \E i \in 0..(Len(hay) - Len(needle)) :
     \A j \in 1..Len(needle) : hay[i + j] = needle[j]

RECURSIVE ParseDigits(_, _)
\* the natural number a run of decimal digits denotes, acc being the value of
\* the digits already read
ParseDigits(chars, acc) ==
  LET value(c) == CHOOSE k \in 0..9 : Digits(k) = <<c>>
  IN IF chars = <<>> THEN acc
     ELSE ParseDigits(Tail(chars), 10 * acc + value(Head(chars)))

RECURSIVE ToNumber(_)
\* Number(v): a string converts when it is empty or a run of digits (the model
\* has no signs, blanks or fractions in strings), an array through its string
ToNumber(v) ==
  CASE v.t = "number" -> v
    [] v.t = "null" -> Num(0)
    [] v.t = "boolean" -> IF v.b THEN Num(1) ELSE Num(0)
    [] v.t = "array" -> IF v.a = <<>> THEN Num(0)
                        ELSE IF Len(v.a) = 1 THEN ToNumber(v.a[1]) ELSE NaN
    [] v.t = "string" -> IF v.s = <<>> THEN Num(0)
                         ELSE IF \A i \in 1..Len(v.s) : v.s[i] \in {Digits(k)[1] : k \in 0..9}
                              THEN Num(ParseDigits(v.s, 0))
                              ELSE NaN
    [] OTHER -> NaN

\* a < b and a <= b on numbers; any comparison with NaN is false
NumLt(a, b) == IsNumber(a) /\ IsNumber(b) /\ a.n * b.d < b.n * a.d
NumLte(a, b) == IsNumber(a) /\ IsNumber(b) /\ a.n * b.d <= b.n * a.d

\* a === b: no coercion; two arrays are two objects
StrictEquals(a, b) ==
  /\ a.t = b.t
  /\ CASE a.t = "number" -> a.n * b.d = b.n * a.d
       [] a.t = "string" -> a.s = b.s
       [] a.t = "boolean" -> a.b = b.b
       [] a.t = "array" -> FALSE
       [] a.t = "NaN" -> FALSE
       [] OTHER -> TRUE

(***************************************************************************)
(* utils.js                                                                *)
(***************************************************************************)
\* getNestedValue(obj, path): the model's paths have one key; a key the object
\* lacks reads as undefined
GetNestedValue(obj, path) ==
  IF path \in DOMAIN obj THEN obj[path] ELSE Undefined

\* setNestedValue(obj, path, value): the object with the key set
SetNestedValue(obj, path, value) ==
  Object([k \in (DOMAIN obj) \cup {path} |-> IF k = path THEN value ELSE obj[k]])

\* JSON.parse(JSON.stringify(obj)): keys holding undefined are dropped, NaN
\* becomes null, everything else the model holds is copied
JsonClone(obj) ==
  Object([k \in {q \in DOMAIN obj : obj[q].t # "undefined"} |->
            IF obj[k].t = "NaN" THEN Null ELSE obj[k]])

(***************************************************************************)
(* scoring.js: display formatting                                          *)
(***************************************************************************)
\* criteria.includes(word), for the criteria names of the model
CriteriaIncludes(criteria, word) ==
  \/ word = "cost" /\ criteria \in {"cost", "cost_per_hour"}
  \/ word = "performance" /\ criteria \in {"performance"}
  \/ word = "reliability" /\ criteria \in {"reliability"}

\* formatDisplayValue(value, criteria): the formatting rule chosen and the value
\* it renders
FormatDisplayValue(value, criteria) ==
  IF IsNumber(value)
  THEN IF CriteriaIncludes(criteria, "cost") \/ CriteriaIncludes(criteria, "price")
       THEN <<"currency3", value>>
       ELSE IF CriteriaIncludes(criteria, "percent") \/ CriteriaIncludes(criteria, "reliability")
               \/ CriteriaIncludes(criteria, "uptime")
       THEN <<"percent", value>>
       ELSE IF CriteriaIncludes(criteria, "performance") \/ CriteriaIncludes(criteria, "iops")
       THEN <<"locale", value>>
       ELSE IF NumLt(value, Num(1)) THEN <<"fixed3", value>>
       ELSE IF NumLt(value, Num(100)) THEN <<"fixed1", value>>
       ELSE <<"roundLocale", value>>
  ELSE <<"string", value>>

(***************************************************************************)
(* scoring.js: constraints                                                 *)
(***************************************************************************)
\* a faulty reading of the flag: only required === true gates, so a constraint
\* that omits the flag would be optional
RequiredWhenTrue(constraint) == constraint.required = "true"

\* constraint.required !== false
IsRequired(constraint) == constraint.required # "false"

\* a faulty evaluation: the absence test is left out, so that an absent value
\* is compared like any other and differs from every operand
EvaluateConstraintWithoutAbsence(option, constraint) ==
  LET value == GetNestedValue(option.features, constraint.criteria)
      constraintValue == constraint.value
  IN CASE constraint.operator = "lt" ->
            NumLt(ToNumber(value), ToNumber(constraintValue))
       [] constraint.operator = "lte" ->
            NumLte(ToNumber(value), ToNumber(constraintValue))
       [] constraint.operator = "gt" ->
            NumLt(ToNumber(constraintValue), ToNumber(value))
       [] constraint.operator = "gte" ->
            NumLte(ToNumber(constraintValue), ToNumber(value))
       [] constraint.operator = "eq" -> StrictEquals(value, constraintValue)
       [] constraint.operator = "neq" -> ~StrictEquals(value, constraintValue)
       [] constraint.operator = "in" ->
            /\ constraintValue.t = "array"
            /\ \E i \in 1..Len(constraintValue.a) :
                  StrictEquals(constraintValue.a[i], value)
       [] constraint.operator = "contains" ->
            Includes(ToLowerCase(JsString(value)),
                     ToLowerCase(JsString(constraintValue)))
       [] OTHER -> FALSE

\* evaluateConstraint(option, constraint)
EvaluateConstraint(option, constraint) ==
  LET value == GetNestedValue(option.features, constraint.criteria)
      constraintValue == constraint.value
  IN IF value = Undefined \/ value = Null THEN FALSE
     ELSE CASE constraint.operator = "lt" ->
                 NumLt(ToNumber(value), ToNumber(constraintValue))
            [] constraint.operator = "lte" ->
                 NumLte(ToNumber(value), ToNumber(constraintValue))
            [] constraint.operator = "gt" ->
                 NumLt(ToNumber(constraintValue), ToNumber(value))
            [] constraint.operator = "gte" ->
                 NumLte(ToNumber(constraintValue), ToNumber(value))
            [] constraint.operator = "eq" -> StrictEquals(value, constraintValue)
            [] constraint.operator = "neq" -> ~StrictEquals(value, constraintValue)
            [] constraint.operator = "in" ->
                 /\ constraintValue.t = "array"
                 /\ \E i \in 1..Len(constraintValue.a) :
                       StrictEquals(constraintValue.a[i], value)
            [] constraint.operator = "contains" ->
                 Includes(ToLowerCase(JsString(value)),
                          ToLowerCase(JsString(constraintValue)))
            [] OTHER -> FALSE

\* operatorText[constraint.operator] || constraint.operator
OperatorText(operator) ==
  CASE operator = "lt" -> "less than"
    [] operator = "lte" -> "less than or equal to"
    [] operator = "gt" -> "greater than"
    [] operator = "gte" -> "greater than or equal to"
    [] operator = "eq" -> "equal to"
    [] operator = "neq" -> "not equal to"
    [] operator = "in" -> "one of"
    [] operator = "contains" -> "containing"
    [] OTHER -> operator

\* generateConstraintReason(option, constraint, passes); the explanation text is
\* kept as the parts the template joins
GenerateConstraintReason(option, constraint, passes) ==
  LET value == GetNestedValue(option.features, constraint.criteria)
      requiredText == IF IsRequired(constraint) THEN "required" ELSE "optional"
  IN [criteria |-> constraint.criteria,
      status |-> IF passes THEN "passed" ELSE "failed",
      explanation |->
        IF value = Undefined \/ value = Null
        THEN <<option.name, "has no", constraint.criteria, "data available for",
               requiredText, "constraint">>
        ELSE <<option.name, constraint.criteria,
               FormatDisplayValue(value, constraint.criteria),
               IF passes THEN "meets" ELSE "does not meet", requiredText,
               OperatorText(constraint.operator),
               FormatDisplayValue(constraint.value, constraint.criteria)>>,
      required |-> IsRequired(constraint),
      actualValue |-> value,
      constraintValue |-> constraint.value,
      operator |-> constraint.operator]

\* a faulty compliance report: reasons are recorded for the required
\* constraints only
ComplianceResultRequiredOnly(option, cs) ==
  LET passes == Array([j \in 1..Len(cs) |-> EvaluateConstraint(option, cs[j])])
      failed == SelectSeq(Indices(Len(cs)), LAMBDA j : ~passes[j])
      required == SelectSeq(Indices(Len(cs)), LAMBDA j : IsRequired(cs[j]))
  IN [passed |-> \A j \in 1..Len(cs) : passes[j] \/ ~IsRequired(cs[j]),
      failedConstraints |-> Array([k \in 1..Len(failed) |-> cs[failed[k]].criteria]),
      constraintReasons |->
        Array([k \in 1..Len(required) |->
           GenerateConstraintReason(option, cs[required[k]], passes[required[k]])])]

\* the body of applyConstraints' loop: one option's compliance report
ComplianceResult(option, cs) ==
  LET passes == Array([j \in 1..Len(cs) |-> EvaluateConstraint(option, cs[j])])
      failed == SelectSeq(Indices(Len(cs)), LAMBDA j : ~passes[j])
  IN [passed |-> \A j \in 1..Len(cs) : passes[j] \/ ~IsRequired(cs[j]),
      failedConstraints |-> Array([k \in 1..Len(failed) |-> cs[failed[k]].criteria]),
      constraintReasons |->
        Array([j \in 1..Len(cs) |-> GenerateConstraintReason(option, cs[j], passes[j])])]

\* a faulty applyConstraints: every option is kept as valid, whatever its
\* compliance
ApplyConstraintsKeepingAll(opts, cs) ==
  LET complianceResult == Array([i \in 1..Len(opts) |-> ComplianceResult(opts[i], cs)])
      lastWith(id) == CHOOSE i \in 1..Len(opts) :
                        /\ opts[i].id = id
                        /\ \A j \in (i + 1)..Len(opts) : opts[j].id # id
  IN [validOptions |->
        Array([k \in 1..Len(opts) |->
           [id |-> opts[k].id, name |-> opts[k].name,
            features |-> opts[k].features,
            constraintCompliance |-> complianceResult[k]]]),
      allResults |->
        Object([id \in {opts[i].id : i \in 1..Len(opts)} |->
                  complianceResult[lastWith(id)]])]

\* applyConstraints(options, constraints): allResults[option.id] is written once
\* per option, so the last option holding an id decides its entry
ApplyConstraints(opts, cs) ==
  LET complianceResult == Array([i \in 1..Len(opts) |-> ComplianceResult(opts[i], cs)])
      passing == SelectSeq(Indices(Len(opts)), LAMBDA i : complianceResult[i].passed)
      lastWith(id) == CHOOSE i \in 1..Len(opts) :
                        /\ opts[i].id = id
                        /\ \A j \in (i + 1)..Len(opts) : opts[j].id # id
  IN [validOptions |->
        Array([k \in 1..Len(passing) |->
           [id |-> opts[passing[k]].id, name |-> opts[passing[k]].name,
            features |-> opts[passing[k]].features,
            constraintCompliance |-> complianceResult[passing[k]]]]),
      allResults |->
        Object([id \in {opts[i].id : i \in 1..Len(opts)} |->
                  complianceResult[lastWith(id)]])]

(***************************************************************************)
(* scoring.js: normalization and statistics                                *)
(***************************************************************************)
\* rational arithmetic on numbers
NumSub(a, b) == Rat(a.n * b.d - b.n * a.d, a.d * b.d)
NumDiv(a, b) == IF b.n > 0 THEN Rat(a.n * b.d, a.d * b.n)
                ELSE Rat(0 - a.n * b.d, a.d * (0 - b.n))
NumTimes(a, k) == Rat(a.n * k, a.d)
NumEq(a, b) == a.n * b.d = b.n * a.d

\* the criterion's values over the options, as both functions compute them:
\* .map(getNestedValue).filter(not undefined/null).map(Number).filter(!isNaN);
\* kept with the index of the option each came from
NumericValues(opts, criteria) ==
  LET idx == SelectSeq(Indices(Len(opts)),
                 LAMBDA i : LET v == GetNestedValue(opts[i].features, criteria)
                            IN v # Undefined /\ v # Null /\ IsNumber(ToNumber(v)))
  IN Array([k \in 1..Len(idx) |->
              ToNumber(GetNestedValue(opts[idx[k]].features, criteria))])

\* Math.min(...values) and Math.max(...values) of a non-empty list
MinOf(values) ==
  values[CHOOSE i \in 1..Len(values) : \A j \in 1..Len(values) : NumLte(values[i], values[j])]
MaxOf(values) ==
  values[CHOOSE i \in 1..Len(values) : \A j \in 1..Len(values) : NumLte(values[j], values[i])]

RECURSIVE SumOf(_)
\* values.reduce((sum, val) => sum + val, 0)
SumOf(values) ==
  IF values = <<>> THEN Num(0)
  ELSE LET rest == SumOf(Tail(values))
       IN Rat(values[1].n * rest.d + rest.n * values[1].d, values[1].d * rest.d)

\* [...values].sort((a, b) => a - b)[Math.floor(length / 2)]: the element with
\* at most k values below it and more than k values not above it
MedianOf(values) ==
  LET k == Len(values) \div 2
      below(i) == Cardinality({j \in 1..Len(values) : NumLt(values[j], values[i])})
      upto(i) == Cardinality({j \in 1..Len(values) : NumLte(values[j], values[i])})
  IN values[CHOOSE i \in 1..Len(values) : below(i) <= k /\ k < upto(i)]

\* a faulty range: the width is taken to be the maximum, the minimum not
\* being subtracted
CriteriaRangeToMax(opts, criteria) ==
  LET values == NumericValues(opts, criteria)
  IN IF Len(values) > 0
     THEN [min |-> MinOf(values), max |-> MaxOf(values), range |-> MaxOf(values)]
     ELSE Undefined

\* criteriaRanges[priority.criteria] of normalizeOptionValues; Undefined when no
\* option holds a numeric value
CriteriaRange(opts, criteria) ==
  LET values == NumericValues(opts, criteria)
  IN IF Len(values) > 0
     THEN [min |-> MinOf(values), max |-> MaxOf(values),
           range |-> NumSub(MaxOf(values), MinOf(values))]
     ELSE Undefined

\* normalizeOptionValues(options, priorities): each option with normalizedFeatures,
\* the JSON clone of its features in which every priority criterion that has a
\* raw value and a positive range is set to (Number(raw) - min) / range
NormalizeOptionValues(opts, prios) ==
  LET crit == {prios[p].criteria : p \in 1..Len(prios)}
      criteriaRanges == Object([c \in crit |-> CriteriaRange(opts, c)])
      isSet(o, c) == /\ GetNestedValue(o.features, c) # Undefined
                     /\ criteriaRanges[c] # Undefined
                     /\ criteriaRanges[c].range.n > 0
      normalized(o, c) ==
        LET raw == ToNumber(GetNestedValue(o.features, c))
        IN IF IsNumber(raw)
           THEN NumDiv(NumSub(raw, criteriaRanges[c].min), criteriaRanges[c].range)
           ELSE NaN
      normalizedFeatures(o) ==
        LET clone == JsonClone(o.features)
            set == {c \in crit : isSet(o, c)}
        IN Object([k \in (DOMAIN clone) \cup set |->
                     IF k \in set THEN normalized(o, k) ELSE clone[k]])
  IN Array([i \in 1..Len(opts) |->
        [id |-> opts[i].id, name |-> opts[i].name, features |-> opts[i].features,
         constraintCompliance |-> opts[i].constraintCompliance,
         normalizedFeatures |-> normalizedFeatures(opts[i])]])

\* a faulty normalizeOptionValues: normalizedFeatures is option.features itself
\* and not a copy, so the normalized values are written into the option
FeaturesSharedWithNormalized(normalizedOption) == normalizedOption.normalizedFeatures

\* what option.features holds once normalizeOptionValues has returned:
\* setNestedValue writes into normalizedFeatures, the copy made by
\* JSON.parse(JSON.stringify(option.features)), and never into option.features
FeaturesAfterNormalize(normalizedOption) == normalizedOption.features

\* the caller's options once normalizeOptionValues(validOptions, priorities) has
\* returned: an entry of validOptions is { ...option }, which shares its
\* features object with the caller's option of the same id
OptionsAfterNormalize(opts, valid, prios) ==
  LET normalizedOptions == NormalizeOptionValues(valid, prios)
      entry(id) == CHOOSE k \in 1..Len(normalizedOptions) : normalizedOptions[k].id = id
  IN Array([i \in 1..Len(opts) |->
        IF \E k \in 1..Len(normalizedOptions) : normalizedOptions[k].id = opts[i].id
        THEN [opts[i] EXCEPT !.features = FeaturesAfterNormalize(normalizedOptions[entry(opts[i].id)])]
        ELSE opts[i]])

\* stats[priority.criteria] of calculateCriteriaStatistics; Undefined when no
\* option holds a numeric value
CriteriaStatistics(opts, criteria) ==
  LET values == NumericValues(opts, criteria)
      sum == SumOf(values)
  IN IF Len(values) > 0
     THEN [min |-> MinOf(values), max |-> MaxOf(values),
           avg |-> Rat(sum.n, sum.d * Len(values)),
           median |-> MedianOf(values), count |-> Len(values)]
     ELSE Undefined

\* calculateCriteriaStatistics(options, priorities)
CalculateCriteriaStatistics(opts, prios) ==
  Object([c \in {prios[p].criteria : p \in 1..Len(prios)} |-> CriteriaStatistics(opts, c)])

\* calculatePercentile(value, stats, isMinimize), as a rational in [0, 100]
CalculatePercentile(value, stats, isMinimize) ==
  LET range == NumSub(stats.max, stats.min)
      p == NumTimes(NumDiv(NumSub(ToNumber(value), stats.min), range), 100)
      directed == IF isMinimize THEN NumSub(Num(100), p) ELSE p
  IN IF range.n = 0 THEN Num(50)
     ELSE IF NumLt(directed, Num(0)) THEN Num(0)
     ELSE IF NumLt(Num(100), directed) THEN Num(100)
     ELSE directed

(***************************************************************************)
(* scoring.js: criterion scores and their reasons                          *)
(***************************************************************************)
\* the performance level and impact generateCriteriaReason assigns to a score
PerformanceLevel(score, isMinimize) ==
  IF NumLte(Num(80), score) THEN (IF isMinimize THEN "very low" ELSE "excellent")
  ELSE IF NumLte(Num(60), score) THEN (IF isMinimize THEN "low" ELSE "good")
  ELSE IF NumLte(Num(40), score) THEN "average"
  ELSE IF NumLte(Num(20), score) THEN (IF isMinimize THEN "high" ELSE "below average")
  ELSE (IF isMinimize THEN "very high" ELSE "poor")
Impact(score) ==
  IF NumLte(Num(80), score) THEN "positive"
  ELSE IF NumLte(Num(60), score) THEN "positive"
  ELSE IF NumLte(Num(40), score) THEN "neutral"
  ELSE IF NumLte(Num(20), score) THEN "negative"
  ELSE "negative"

\* the comparison label generateCriteriaReason derives from the percentile
Comparison(rawValue, stats, isMinimize) ==
  IF stats # Undefined /\ stats.count > 1
  THEN LET percentile == CalculatePercentile(rawValue, stats, isMinimize)
       IN IF NumLte(Num(80), percentile)
          THEN (IF isMinimize THEN "among the lowest" ELSE "among the highest")
          ELSE IF NumLte(Num(60), percentile)
          THEN (IF isMinimize THEN "below average" ELSE "above average")
          ELSE IF NumLte(Num(40), percentile) THEN "near average"
          ELSE (IF isMinimize THEN "above average" ELSE "below average")
  ELSE "only option available"

\* a faulty contribution: the rounded score itself, the weight left out
WeightContributionUnweighted(score, priority) ==
  RoundHalfUp(score.n * Hundred, score.d)

\* Math.round(score * priority.weight * 100) / 100 in hundredths; the weight
\* counts hundredths, so score * weight * 100 is score * priority.weight
WeightContribution(score, priority) ==
  RoundHalfUp(score.n * priority.weight, score.d)

\* a faulty rounding: the score is clamped to 0..100 before it is rounded
RoundScoreClamped(score) ==
  IF score.n < 0 THEN 0
  ELSE IF score.n > 100 * score.d THEN 100 * Hundred
  ELSE RoundHalfUp(score.n * Hundred, score.d)

\* Math.round(score * 100) / 100 in hundredths
RoundScore(score) == RoundHalfUp(score.n * Hundred, score.d)

\* generateCriteriaReason(priority, rawValue, score, stats, optionName); score is
\* the score before rounding
GenerateCriteriaReason(priority, rawValue, score, stats, optionName) ==
  LET isMinimize == priority.optimization = "minimize"
      impact == Impact(score)
      performanceLevel == PerformanceLevel(score, isMinimize)
      comparison == Comparison(rawValue, stats, isMinimize)
      formattedValue == FormatDisplayValue(rawValue, priority.criteria)
  IN [criteria |-> priority.criteria,
      status |-> impact,
      explanation |->
        <<optionName, "has", performanceLevel, priority.criteria, formattedValue,
          "which is", comparison,
          CASE impact = "positive" -> "helps" [] impact = "negative" -> "hurts"
            [] OTHER -> "neutrally affects">>,
      details |-> [rawValue |-> rawValue,
                   formattedValue |-> formattedValue,
                   score |-> RoundScore(score),
                   performanceLevel |-> performanceLevel,
                   comparison |-> comparison,
                   weightPercentage |-> priority.weight],
      impact |-> impact,
      weightContribution |-> WeightContribution(score, priority)]

\* a faulty score: the optimization direction is ignored
DirectedScoreNotInverted(normalizedValue, priority) ==
  NumTimes(ToNumber(normalizedValue), 100)

\* normalizedValue * 100, then 100 - score when minimizing (null counts as 0)
DirectedScore(normalizedValue, priority) ==
  LET score == NumTimes(ToNumber(normalizedValue), 100)
  IN IF priority.optimization = "minimize" THEN NumSub(Num(100), score) ELSE score

\* calculateCriteriaScore(option, priority, criteriaStats)
CalculateCriteriaScore(option, priority, criteriaStats) ==
  LET normalizedValue == GetNestedValue(option.normalizedFeatures, priority.criteria)
      rawValue == GetNestedValue(option.features, priority.criteria)
      score == DirectedScore(normalizedValue, priority)
      stats == criteriaStats[priority.criteria]
  IN IF normalizedValue = Undefined \/ rawValue = Undefined
     THEN [success |-> FALSE]
     ELSE [success |-> TRUE,
           score |-> RoundScore(score),
           normalizedValue |-> normalizedValue,
           rawValue |-> rawValue,
           reason |-> GenerateCriteriaReason(priority, rawValue, score, stats, option.name)]

\* a faulty missing-data reason: the gap in the data counts against the option
MissingDataReasonPenalised(option, priority) ==
  [criteria |-> priority.criteria,
   status |-> "missing_data",
   explanation |-> <<"No", priority.criteria, "data available for", option.name>>,
   impact |-> "negative",
   weightContribution |-> 0 - priority.weight]

\* the reason calculateWeightedScores records for a priority without data
MissingDataReason(option, priority) ==
  [criteria |-> priority.criteria,
   status |-> "missing_data",
   explanation |-> <<"No", priority.criteria, "data available for", option.name>>,
   impact |-> "neutral",
   weightContribution |-> 0]

RECURSIVE SumInts(_)
SumInts(s) == IF s = <<>> THEN 0 ELSE s[1] + SumInts(Tail(s))

\* the body of calculateWeightedScores' map: one normalized option scored
\* against every priority
ScoreOption(option, prios, criteriaStats) ==
  LET result == Array([p \in 1..Len(prios) |->
                         CalculateCriteriaScore(option, prios[p], criteriaStats)])
      scored == {p \in 1..Len(prios) : result[p].success}
      lastFor(c) == CHOOSE p \in scored :
                      /\ prios[p].criteria = c
                      /\ \A q \in scored : prios[q].criteria = c => q <= p
      \* totalScore += result.score * priority.weight, in 1/10000
      total == SumInts(Array([p \in 1..Len(prios) |->
                          IF p \in scored THEN result[p].score * prios[p].weight ELSE 0]))
  IN [optionId |-> option.id,
      name |-> option.name,
      totalScore |-> RoundHalfUp(total, Hundred),
      criteriaScores |->
        Object([c \in {prios[p].criteria : p \in scored} |->
           [score |-> result[lastFor(c)].score,
            normalizedValue |-> result[lastFor(c)].normalizedValue,
            rawValue |-> result[lastFor(c)].rawValue]]),
      reasons |->
        Array([p \in 1..Len(prios) |->
           IF p \in scored THEN result[p].reason
           ELSE MissingDataReason(option, prios[p])]),
      constraintCompliance |-> option.constraintCompliance]

\* calculateWeightedScores(options, priorities): the statistics are those of the
\* options before normalization
CalculateWeightedScores(opts, prios) ==
  LET normalizedOptions == NormalizeOptionValues(opts, prios)
      criteriaStats == CalculateCriteriaStatistics(opts, prios)
  IN Array([i \in 1..Len(opts) |-> ScoreOption(normalizedOptions[i], prios, criteriaStats)])

(***************************************************************************)
(* scoring.js: ranking                                                     *)
(***************************************************************************)
\* a faulty sort: descending, but equal totals come out in reverse input order
SortByTotalScoreUnstable(scored) ==
  LET position(i) ==
        1 + Cardinality({j \in 1..Len(scored) : scored[j].totalScore > scored[i].totalScore})
          + Cardinality({j \in (i + 1)..Len(scored) :
                           scored[j].totalScore = scored[i].totalScore})
  IN Array([p \in 1..Len(scored) |-> scored[CHOOSE i \in 1..Len(scored) : position(i) = p]])

\* scored.sort((a, b) => b.totalScore - a.totalScore): Array.prototype.sort is
\* stable, so an element goes after every element with a larger total and after
\* the earlier elements with the same total
SortByTotalScore(scored) ==
  LET position(i) ==
        1 + Cardinality({j \in 1..Len(scored) : scored[j].totalScore > scored[i].totalScore})
          + Cardinality({j \in 1..(i - 1) : scored[j].totalScore = scored[i].totalScore})
  IN Array([p \in 1..Len(scored) |-> scored[CHOOSE i \in 1..Len(scored) : position(i) = p]])

\* .map((option, index) => ({...option, rank: index + 1}))
AssignRanks(sorted) ==
  Array([i \in 1..Len(sorted) |->
     [optionId |-> sorted[i].optionId, name |-> sorted[i].name,
      totalScore |-> sorted[i].totalScore, criteriaScores |-> sorted[i].criteriaScores,
      reasons |-> sorted[i].reasons,
      constraintCompliance |-> sorted[i].constraintCompliance,
      rank |-> i]])

\* settings.max_results ? rankedOptions.slice(0, settings.max_results) : rankedOptions
LimitResults(ranked, stg) ==
  LET max_results == GetNestedValue(stg, "max_results")
  IN IF max_results # Undefined /\ max_results.n # 0
     THEN SubSeq(ranked, 1,
                 IF max_results.n < Len(ranked) THEN max_results.n
                 ELSE Len(ranked))
     ELSE ranked

\* a faulty empty result: the evaluated options are counted after filtering
EmptyResultsOfValid(opts, results) ==
  [rankedOptions |-> <<>>,
   summary |-> [totalOptionsEvaluated |-> Len(results.validOptions),
                optionsMeetingConstraints |-> 0,
                topRecommendation |-> Null],
   constraintResults |-> results.allResults]

\* scoreOptions' return value when validOptions is empty
EmptyResults(opts, results) ==
  [rankedOptions |-> <<>>,
   summary |-> [totalOptionsEvaluated |-> Len(opts),
                optionsMeetingConstraints |-> 0,
                topRecommendation |-> Null],
   constraintResults |-> results.allResults]

\* a faulty result: optionsMeetingConstraints counts the options returned
RankedResultsCountingLimited(opts, results, ranked, stg) ==
  LET limitedResults == LimitResults(ranked, stg)
  IN [rankedOptions |-> limitedResults,
      summary |-> [totalOptionsEvaluated |-> Len(opts),
                   optionsMeetingConstraints |-> Len(limitedResults),
                   topRecommendation |->
                     IF Len(limitedResults) > 0 THEN limitedResults[1] ELSE Null],
      constraintResults |-> results.allResults]

\* scoreOptions' return value otherwise, from the full ranking
RankedResults(opts, results, ranked, stg) ==
  LET limitedResults == LimitResults(ranked, stg)
  IN [rankedOptions |-> limitedResults,
      summary |-> [totalOptionsEvaluated |-> Len(opts),
                   optionsMeetingConstraints |-> Len(results.validOptions),
                   topRecommendation |->
                     IF Len(limitedResults) > 0 THEN limitedResults[1] ELSE Null],
      constraintResults |-> results.allResults]

\* scoreOptions(options, constraints, priorities, settings): its four steps in one
ScoreOptionsOf(opts, cs, prios, stg) ==
  LET results == ApplyConstraints(opts, cs)
  IN IF Len(results.validOptions) = 0
     THEN EmptyResults(opts, results)
     ELSE RankedResults(opts, results,
            AssignRanks(SortByTotalScore(CalculateWeightedScores(results.validOptions, prios))),
            stg)

(***************************************************************************)
(* analysis.js                                                             *)
(***************************************************************************)
\* seq.slice(0, k)
Slice(seq, k) == SubSeq(seq, 1, IF k < Len(seq) THEN k ELSE Len(seq))

\* a faulty sort: the reasons are left in the order of the priorities
SortByWeightContributionSkipped(reasons) == reasons

\* reasons.sort((a, b) => b.weightContribution - a.weightContribution), stable
SortByWeightContribution(reasons) ==
  LET position(i) ==
        1 + Cardinality({j \in 1..Len(reasons) :
                           reasons[j].weightContribution > reasons[i].weightContribution})
          + Cardinality({j \in 1..(i - 1) :
                           reasons[j].weightContribution = reasons[i].weightContribution})
  IN Array([p \in 1..Len(reasons) |-> reasons[CHOOSE i \in 1..Len(reasons) : position(i) = p]])

\* Object.entries(option.criteriaScores) lists the criteria in the order their
\* entries were first written, which is the order of the option's reasons that
\* carry a score
ScoredCriteria(option) ==
  LET rs == option.reasons
      first == SelectSeq(Indices(Len(rs)),
                 LAMBDA i : /\ rs[i].criteria \in DOMAIN option.criteriaScores
                            /\ \A j \in 1..(i - 1) : rs[j].criteria # rs[i].criteria)
  IN Array([k \in 1..Len(first) |-> rs[first[k]].criteria])

\* calculateAverageScore(options, criteria): the mean of the criterion's scores
\* over the options that have one, in hundredths; 0 when none has
CalculateAverageScore(opts, criteria) ==
  LET having == SelectSeq(opts, LAMBDA o : criteria \in DOMAIN o.criteriaScores)
      scores == Array([i \in 1..Len(having) |-> having[i].criteriaScores[criteria].score])
  IN IF Len(scores) > 0 THEN Rat(SumInts(scores), Len(scores)) ELSE Num(0)

\* a faulty loop: a deviation of exactly 20 points already counts
CriteriaDifferentiatorsFromTwenty(option, allOptions) ==
  LET crit == ScoredCriteria(option)
      score(c) == Num(option.criteriaScores[c].score)
      avgScore(c) == CalculateAverageScore(allOptions, c)
      above(c) == NumLte(Num(20 * Hundred), NumSub(score(c), avgScore(c)))
      below(c) == NumLte(Num(20 * Hundred), NumSub(avgScore(c), score(c)))
      reason(c) == option.reasons[CHOOSE i \in 1..Len(option.reasons) :
                      /\ option.reasons[i].criteria = c
                      /\ \A j \in 1..(i - 1) : option.reasons[j].criteria # c]
      differing == SelectSeq(crit, LAMBDA c : above(c) \/ below(c))
  IN Array([k \in 1..Len(differing) |->
        <<IF above(differing[k]) THEN "superior" ELSE "inferior", differing[k],
          reason(differing[k]).details.formattedValue, "vs competitors">>])

\* the loop of analyzeOptionTradeOffs over Object.entries(option.criteriaScores):
\* Math.abs(score - avgScore) > 20
CriteriaDifferentiators(option, allOptions) ==
  LET crit == ScoredCriteria(option)
      score(c) == Num(option.criteriaScores[c].score)
      avgScore(c) == CalculateAverageScore(allOptions, c)
      above(c) == NumLt(Num(20 * Hundred), NumSub(score(c), avgScore(c)))
      below(c) == NumLt(Num(20 * Hundred), NumSub(avgScore(c), score(c)))
      reason(c) == option.reasons[CHOOSE i \in 1..Len(option.reasons) :
                      /\ option.reasons[i].criteria = c
                      /\ \A j \in 1..(i - 1) : option.reasons[j].criteria # c]
      differing == SelectSeq(crit, LAMBDA c : above(c) \/ below(c))
  IN Array([k \in 1..Len(differing) |->
        <<IF above(differing[k]) THEN "superior" ELSE "inferior", differing[k],
          reason(differing[k]).details.formattedValue, "vs competitors">>])

\* the contextual notes analyzeOptionTradeOffs appends: the rank note, then the
\* count of failed optional constraints
ContextualNotes(option) ==
  LET failedOptional == SelectSeq(option.constraintCompliance.constraintReasons,
                                  LAMBDA r : r.status = "failed" /\ ~r.required)
  IN (IF option.rank = 1
      THEN <<<<"Top overall recommendation based on your priorities">>>>
      ELSE IF option.rank <= 3 THEN <<<<"Ranked #", option.rank, "among viable options">>>>
      ELSE <<>>)
     \o (IF Len(failedOptional) > 0
         THEN <<<<"Fails", Len(failedOptional), "optional constraint(s)">>>>
         ELSE <<>>)

\* analyzeOptionTradeOffs(option, allOptions, priorities)
AnalyzeOptionTradeOffs(option, allOptions, prios) ==
  LET positiveReasons == SelectSeq(option.reasons, LAMBDA r : r.impact = "positive")
      negativeReasons == SelectSeq(option.reasons, LAMBDA r : r.impact = "negative")
      topPositive == Slice(SortByWeightContribution(positiveReasons), 3)
      topNegative == Slice(SortByWeightContribution(negativeReasons), 3)
      strengths == Array([i \in 1..Len(topPositive) |->
                      <<"Strong", topPositive[i].criteria,
                        topPositive[i].details.formattedValue,
                        topPositive[i].details.performanceLevel>>])
      weaknesses == Array([i \in 1..Len(topNegative) |->
                       <<"Weak", topNegative[i].criteria,
                         topNegative[i].details.formattedValue,
                         topNegative[i].details.performanceLevel>>])
      keyDifferentiators == CriteriaDifferentiators(option, allOptions)
                              \o ContextualNotes(option)
  IN [strengths |-> Slice(strengths, 3),
      weaknesses |-> Slice(weaknesses, 3),
      keyDifferentiators |-> Slice(keyDifferentiators, 4)]

\* what option.reasons holds once analyzeOptionTradeOffs has returned: the two
\* in-place sorts act on positiveReasons and negativeReasons, the arrays that
\* option.reasons.filter returned
ReasonsAfterAnalysis(option) == option.reasons

\* the rankedOptions given to generateTradeOffAnalysis, once it has returned
RankedAfterAnalysis(ranked) ==
  Array([i \in 1..Len(ranked) |-> [ranked[i] EXCEPT !.reasons = ReasonsAfterAnalysis(ranked[i])]])

\* generateTradeOffAnalysis(rankedOptions, priorities)
GenerateTradeOffAnalysis(ranked, prios) ==
  IF Len(ranked) = 0 THEN <<>>
  ELSE Array([i \in 1..Len(ranked) |->
          [optionId |-> ranked[i].optionId, name |-> ranked[i].name,
           totalScore |-> ranked[i].totalScore,
           criteriaScores |-> ranked[i].criteriaScores,
           reasons |-> ranked[i].reasons,
           constraintCompliance |-> ranked[i].constraintCompliance,
           rank |-> ranked[i].rank,
           tradeOffs |-> AnalyzeOptionTradeOffs(ranked[i], ranked, prios)]])

\* a faulty confidence: the gap bonus is not capped at 0.5
CalculateConfidenceUncapped(ranked) ==
  IF Len(ranked) < 2 THEN Hundred
  ELSE RoundHalfUp(50 * Hundred + (ranked[1].totalScore - ranked[2].totalScore), Hundred)

\* calculateConfidence(rankedOptions), in hundredths:
\* roundToDecimals(0.5 + Math.min(gap / 100, 0.5), 2)
CalculateConfidence(ranked) ==
  IF Len(ranked) < 2 THEN Hundred
  ELSE LET gap == ranked[1].totalScore - ranked[2].totalScore
           \* gap / 100 and 0.5, both in 1/10000
           gapBonus == IF gap < 50 * Hundred THEN gap ELSE 50 * Hundred
       IN RoundHalfUp(50 * Hundred + gapBonus, Hundred)

\* topStrength.toLowerCase(): the strength text, marked as lower-cased
LowerCased(text) == [lowerCased |-> text]

\* generateRecommendationReasoning(topOption, allOptions): the score, the gap
\* phrase and the key strength clause (Undefined when the text has none)
GenerateRecommendationReasoning(topOption, allOptions) ==
  LET gap == IF Len(allOptions) > 1
             THEN topOption.totalScore - allOptions[2].totalScore ELSE 0
      topStrength == IF "tradeOffs" \in DOMAIN topOption
                        /\ Len(topOption.tradeOffs.strengths) > 0
                     THEN LowerCased(topOption.tradeOffs.strengths[1]) ELSE Undefined
  IN [scored |-> topOption.totalScore,
      gapPhrase |->
        IF gap > 15 * Hundred
        THEN <<"Clear leader with", RoundHalfUp(gap, 10), "point advantage.">>
        ELSE IF gap > 8 * Hundred THEN <<"Moderate edge over alternatives.">>
        ELSE IF gap > 3 * Hundred THEN <<"Slight advantage in close competition.">>
        ELSE <<"Very close competition with other options.">>,
      keyStrength |-> topStrength]

\* generateSummary(scoringResults, originalOptions)
GenerateSummary(results, originalOptions) ==
  LET ranked == results.rankedOptions
  IN [totalOptionsEvaluated |-> results.summary.totalOptionsEvaluated,
      optionsMeetingConstraints |-> results.summary.optionsMeetingConstraints,
      topRecommendation |->
        IF Len(ranked) > 0
        THEN [optionId |-> ranked[1].optionId,
              confidence |-> CalculateConfidence(ranked),
              reasoning |-> GenerateRecommendationReasoning(ranked[1], ranked)]
        ELSE Null]

\* the name of the only algorithm, a string the model never looks inside
WeightedSum == Str(<<"weighted_sum">>)

\* generateExplanations(priorities, settings)
GenerateExplanations(prios, stg) ==
  LET given == GetNestedValue(stg, "algorithm")
      algorithm == IF given = Undefined \/ given = Null \/ given = Str(<<>>)
                   THEN WeightedSum ELSE given
  IN [methodology |-> <<"Used", algorithm, "algorithm with user-defined priority weights.">>,
      scoringBreakdown |->
        Array([p \in 1..Len(prios) |-> <<prios[p].criteria, prios[p].weight>>]),
      tradeOffAnalysis |-> "Strengths and weaknesses identified by comparing scores across criteria."]

(***************************************************************************)
(* Request values.  A request body is a JavaScript value as JSON.parse     *)
(* gives it: objects are [t |-> "object", o |-> keys to values], arrays    *)
(* are Arr(elements), strings are Str(<<name>>) with the empty string      *)
(* Str(<<>>), and a weight of 0.6 is Rat(60, 100).                          *)
(***************************************************************************)
Bool(b) == [t |-> "boolean", b |-> b]
Obj(f) == [t |-> "object", o |-> f]

\* typeof v
TypeOf(v) ==
  IF v.t \in {"number", "NaN"} THEN "number"
  ELSE IF v.t \in {"string", "boolean", "undefined"} THEN v.t
  ELSE "object"

\* Array.isArray(v)
IsArray(v) == v.t = "array"

\* the truth value of v in a condition: !v is ~Truthy(v)
Truthy(v) ==
  IF v.t \in {"undefined", "null", "NaN"} THEN FALSE
  ELSE IF v.t = "number" THEN v.n # 0
  ELSE IF v.t = "string" THEN v.s # <<>>
  ELSE IF v.t = "boolean" THEN v.b
  ELSE TRUE

\* v === undefined || v === null: reading a property of v throws a TypeError
IsNullish(v) == v.t \in {"undefined", "null"}

\* v[key] for a v that is not nullish: undefined unless v is an object with the key
Get(v, key) == IF v.t = "object" /\ key \in DOMAIN v.o THEN v.o[key] ELSE Undefined

\* Object.keys(v).length of an object or array
KeyCount(v) == IF v.t = "array" THEN Len(v.a) ELSE Cardinality(DOMAIN v.o)

\* the elements of a sequence that occur again later in it: findDuplicates(array)
\* is not empty exactly when this set is not
FindDuplicates(array) ==
  {array[i] : i \in {k \in 1..Len(array) : \E j \in (k + 1)..Len(array) : array[j] = array[k]}}

RECURSIVE Flatten(_)
\* errors.push(...list) over a sequence of lists
Flatten(lists) == IF lists = <<>> THEN <<>> ELSE lists[1] \o Flatten(Tail(lists))

(***************************************************************************)
(* validation.js.  An error message is kept as the parts its template      *)
(* joins; a validator either returns [threw |-> FALSE, valid, errors] or   *)
(* throws, [threw |-> TRUE].                                               *)
(***************************************************************************)
Returned(errors) == [threw |-> FALSE, valid |-> (Len(errors) = 0), errors |-> errors]
Rejected(errors) == [threw |-> FALSE, valid |-> FALSE, errors |-> errors]
Threw == [threw |-> TRUE]

\* the errors validateSingleOption pushes for one required field
OptionFieldErrors(option, index, field, type) ==
  IF ~Truthy(Get(option, field))
  THEN <<<<"Option", index, field, "field is required">>>>
  ELSE IF type = "object"
          /\ (TypeOf(Get(option, field)) # "object" \/ IsArray(Get(option, field)))
  THEN <<<<"Option", index, field, "must be an object">>>>
  ELSE IF type = "string" /\ TypeOf(Get(option, field)) # "string"
  THEN <<<<"Option", index, field, "must be a string">>>>
  ELSE <<>>

\* validateSingleOption(option, index)
ValidateSingleOption(option, index) ==
  IF ~Truthy(option) \/ TypeOf(option) # "object"
  THEN <<<<"Option", index, "must be an object">>>>
  ELSE OptionFieldErrors(option, index, "id", "string")
       \o OptionFieldErrors(option, index, "name", "string")
       \o OptionFieldErrors(option, index, "features", "object")
       \o (IF /\ Truthy(Get(option, "features"))
              /\ TypeOf(Get(option, "features")) = "object"
              /\ KeyCount(Get(option, "features")) = 0
           THEN <<<<"Option", index, "features", "cannot be empty">>>>
           ELSE <<>>)

\* a faulty validateOptions: the duplicate ids are not looked for
ValidateOptionsAllowingDuplicates(opts) ==
  IF ~Truthy(opts) THEN Rejected(<<<<"Options field is required">>>>)
  ELSE IF ~IsArray(opts) THEN Rejected(<<<<"Options must be an array">>>>)
  ELSE IF Len(opts.a) = 0 THEN Rejected(<<<<"At least one option is required">>>>)
  ELSE IF \E i \in 1..Len(opts.a) : IsNullish(opts.a[i]) THEN Threw
  ELSE Returned(
         (IF Len(opts.a) < 2
          THEN <<<<"At least two options are required for meaningful comparison">>>>
          ELSE <<>>)
         \o Flatten(Array([i \in 1..Len(opts.a) |-> ValidateSingleOption(opts.a[i], i)])))

\* validateOptions(options); options.map(opt => opt.id) throws on a null entry
ValidateOptions(opts) ==
  IF ~Truthy(opts) THEN Rejected(<<<<"Options field is required">>>>)
  ELSE IF ~IsArray(opts) THEN Rejected(<<<<"Options must be an array">>>>)
  ELSE IF Len(opts.a) = 0 THEN Rejected(<<<<"At least one option is required">>>>)
  ELSE IF \E i \in 1..Len(opts.a) : IsNullish(opts.a[i]) THEN Threw
  ELSE LET ids == Array([i \in 1..Len(opts.a) |-> Get(opts.a[i], "id")])
           optionIds == SelectSeq(ids, Truthy)
       IN Returned(
            (IF Len(opts.a) < 2
             THEN <<<<"At least two options are required for meaningful comparison">>>>
             ELSE <<>>)
            \o Flatten(Array([i \in 1..Len(opts.a) |-> ValidateSingleOption(opts.a[i], i)]))
            \o (IF FindDuplicates(optionIds) # {}
                THEN <<<<"Duplicate option IDs found", FindDuplicates(optionIds)>>>>
                ELSE <<>>))

\* validOperators
ValidOperators ==
  {Str(<<op>>) : op \in {"lt", "lte", "gt", "gte", "eq", "neq", "in", "contains"}}

\* validateSingleConstraint(constraint, index)
ValidateSingleConstraint(constraint, index) ==
  IF ~Truthy(constraint) \/ TypeOf(constraint) # "object"
  THEN <<<<"Constraint", index, "must be an object">>>>
  ELSE (IF ~Truthy(Get(constraint, "criteria"))
        THEN <<<<"Constraint", index, "criteria", "field is required">>>>
        ELSE IF TypeOf(Get(constraint, "criteria")) # "string"
        THEN <<<<"Constraint", index, "criteria", "must be a string">>>>
        ELSE <<>>)
       \o (IF ~Truthy(Get(constraint, "operator"))
           THEN <<<<"Constraint", index, "operator", "field is required">>>>
           ELSE IF Get(constraint, "operator") \notin ValidOperators
           THEN <<<<"Constraint", index, "operator", "must be one of">>>>
           ELSE <<>>)
       \o (IF IsNullish(Get(constraint, "value"))
           THEN <<<<"Constraint", index, "value", "field is required">>>>
           ELSE <<>>)
       \o (IF /\ Get(constraint, "required") # Undefined
              /\ TypeOf(Get(constraint, "required")) # "boolean"
           THEN <<<<"Constraint", index, "required", "must be a boolean">>>>
           ELSE <<>>)

\* validateConstraints(constraints)
ValidateConstraints(cs) ==
  IF ~Truthy(cs) THEN Rejected(<<<<"Constraints field is required">>>>)
  ELSE IF ~IsArray(cs) THEN Rejected(<<<<"Constraints must be an array">>>>)
  ELSE Returned(
         Flatten(Array([i \in 1..Len(cs.a) |-> ValidateSingleConstraint(cs.a[i], i)])))

\* validOptimizations
ValidOptimizations == {Str(<<"minimize">>), Str(<<"maximize">>)}

\* validateSinglePriority(priority, index)
ValidateSinglePriority(priority, index) ==
  IF ~Truthy(priority) \/ TypeOf(priority) # "object"
  THEN <<<<"Priority", index, "must be an object">>>>
  ELSE (IF ~Truthy(Get(priority, "criteria"))
        THEN <<<<"Priority", index, "criteria", "field is required">>>>
        ELSE IF TypeOf(Get(priority, "criteria")) # "string"
        THEN <<<<"Priority", index, "criteria", "must be a string">>>>
        ELSE <<>>)
       \o (IF IsNullish(Get(priority, "weight"))
           THEN <<<<"Priority", index, "weight", "field is required">>>>
           ELSE IF ~IsNumber(Get(priority, "weight"))
           THEN <<<<"Priority", index, "weight", "must be a number">>>>
           ELSE IF NumLt(Get(priority, "weight"), Num(0))
                   \/ NumLt(Num(1), Get(priority, "weight"))
           THEN <<<<"Priority", index, "weight", "must be between 0 and 1">>>>
           ELSE <<>>)
       \o (IF ~Truthy(Get(priority, "optimization"))
           THEN <<<<"Priority", index, "optimization", "field is required">>>>
           ELSE IF Get(priority, "optimization") \notin ValidOptimizations
           THEN <<<<"Priority", index, "optimization", "must be either">>>>
           ELSE <<>>)

\* Math.abs(totalWeight - 1) > 0.01 for the sum of the weights given
WeightSumOff(weights) ==
  LET totalWeight == SumOf(weights)
      off == NumSub(totalWeight, Num(1))
  IN NumLt(Rat(1, Hundred), off) \/ NumLt(off, Rat(0 - 1, Hundred))

\* a faulty validatePriorities: the sum of the weights is not checked
ValidatePrioritiesAnySum(prios) ==
  IF ~Truthy(prios) THEN Rejected(<<<<"Priorities field is required">>>>)
  ELSE IF ~IsArray(prios) THEN Rejected(<<<<"Priorities must be an array">>>>)
  ELSE IF Len(prios.a) = 0 THEN Rejected(<<<<"At least one priority is required">>>>)
  ELSE IF \E i \in 1..Len(prios.a) : IsNullish(prios.a[i]) THEN Threw
  ELSE LET criteria == SelectSeq(Array([i \in 1..Len(prios.a) |-> Get(prios.a[i], "criteria")]),
                                 Truthy)
       IN Returned(
            Flatten(Array([i \in 1..Len(prios.a) |-> ValidateSinglePriority(prios.a[i], i)]))
            \o (IF FindDuplicates(criteria) # {}
                THEN <<<<"Duplicate priority criteria found", FindDuplicates(criteria)>>>>
                ELSE <<>>))

\* validatePriorities(priorities); the filter on p.weight throws on a null entry
ValidatePriorities(prios) ==
  IF ~Truthy(prios) THEN Rejected(<<<<"Priorities field is required">>>>)
  ELSE IF ~IsArray(prios) THEN Rejected(<<<<"Priorities must be an array">>>>)
  ELSE IF Len(prios.a) = 0 THEN Rejected(<<<<"At least one priority is required">>>>)
  ELSE IF \E i \in 1..Len(prios.a) : IsNullish(prios.a[i]) THEN Threw
  ELSE LET validPriorities == SelectSeq(prios.a, LAMBDA q : IsNumber(Get(q, "weight")))
           weights == Array([i \in 1..Len(validPriorities) |->
                               Get(validPriorities[i], "weight")])
           criteria == SelectSeq(Array([i \in 1..Len(prios.a) |-> Get(prios.a[i], "criteria")]),
                                 Truthy)
       IN Returned(
            Flatten(Array([i \in 1..Len(prios.a) |-> ValidateSinglePriority(prios.a[i], i)]))
            \o (IF Len(validPriorities) > 0 /\ WeightSumOff(weights)
                THEN <<<<"Priority weights must sum to 1.0", SumOf(weights)>>>>
                ELSE <<>>)
            \o (IF FindDuplicates(criteria) # {}
                THEN <<<<"Duplicate priority criteria found", FindDuplicates(criteria)>>>>
                ELSE <<>>))

\* validAlgorithms
ValidAlgorithms == {Str(<<"weighted_sum">>), Str(<<"topsis">>), Str(<<"ahp">>)}

\* validateSettings(settings)
ValidateSettings(stg) ==
  IF ~Truthy(stg) THEN Returned(<<>>)
  ELSE IF TypeOf(stg) # "object" \/ IsArray(stg)
  THEN Rejected(<<<<"Settings must be an object">>>>)
  ELSE Returned(
         (IF Get(stg, "algorithm") # Undefined /\ Get(stg, "algorithm") \notin ValidAlgorithms
          THEN <<<<"Settings", "algorithm", "must be one of">>>>
          ELSE <<>>)
         \o (IF /\ Get(stg, "include_explanations") # Undefined
                /\ TypeOf(Get(stg, "include_explanations")) # "boolean"
             THEN <<<<"Settings", "include_explanations", "must be a boolean">>>>
             ELSE <<>>)
         \o (IF /\ Get(stg, "max_results") # Undefined
                /\ \/ ~IsNumber(Get(stg, "max_results"))
                   \/ Get(stg, "max_results").n % Get(stg, "max_results").d # 0
                   \/ NumLt(Get(stg, "max_results"), Num(1))
             THEN <<<<"Settings", "max_results", "must be a positive integer">>>>
             ELSE <<>>))

\* the property key a string names
KeyOf(string) == string.s[1]

\* collectFeatureKeys over every option: the keys of the features objects (the
\* features of the model hold no nested objects)
AllFeatureKeys(opts) ==
  UNION {IF /\ Truthy(Get(opts.a[i], "features"))
            /\ Get(opts.a[i], "features").t = "object"
         THEN DOMAIN Get(opts.a[i], "features").o ELSE {} : i \in 1..Len(opts.a)}

\* validateCriteriaExistence(options, priorities)
ValidateCriteriaExistence(opts, prios) ==
  LET missing == SelectSeq(prios.a,
                   LAMBDA q : /\ Truthy(Get(q, "criteria"))
                              /\ KeyOf(Get(q, "criteria")) \notin AllFeatureKeys(opts))
  IN Array([k \in 1..Len(missing) |->
        <<"Priority criteria", Get(missing[k], "criteria"), "not found in any option features">>])

\* validateRequest(input): the four validators run in order, so the first to
\* throw ends the call
ValidateRequest(body) ==
  LET optionsValidation == ValidateOptions(Get(body, "options"))
      constraintsValidation == ValidateConstraints(Get(body, "constraints"))
      prioritiesValidation == ValidatePriorities(Get(body, "priorities"))
      settingsValidation == ValidateSettings(Get(body, "settings"))
  IN IF optionsValidation.threw \/ prioritiesValidation.threw THEN Threw
     ELSE LET errors ==
                optionsValidation.errors \o constraintsValidation.errors
                \o prioritiesValidation.errors \o settingsValidation.errors
                \o (IF optionsValidation.valid /\ prioritiesValidation.valid
                    THEN ValidateCriteriaExistence(Get(body, "options"),
                                                   Get(body, "priorities"))
                    ELSE <<>>)
          IN [threw |-> FALSE,
              valid |-> (Len(errors) = 0),
              errors |-> errors,
              errorCount |-> Len(errors),
              message |-> IF Len(errors) > 0 THEN "Validation failed" ELSE "Valid input"]

(***************************************************************************)
(* processComparison: the four steps of the pipeline                       *)
(***************************************************************************)
\* a result that has not been computed yet
NotYet == <<>>

\* scoreOptions, step 1: applyConstraints, and the return when no option is valid
ScoreApplyConstraints ==
  /\ pc = "scoreOptions"
  /\ constraintResults' = ApplyConstraints(options, constraints)
  /\ IF Len(constraintResults'.validOptions) = 0
     THEN /\ scoringResults' = EmptyResults(options, constraintResults')
          /\ pc' = "generateTradeOffAnalysis"
     ELSE /\ scoringResults' = scoringResults
          /\ pc' = "calculateWeightedScores"
  /\ UNCHANGED <<input, http, scoredOptions, rankedOptions,
                 rankedOptionsWithTradeOffs, summary, explanations>>

\* scoreOptions, step 2: calculateWeightedScores(validOptions, priorities)
ScoreCalculateWeightedScores ==
  /\ pc = "calculateWeightedScores"
  /\ scoredOptions' = CalculateWeightedScores(constraintResults.validOptions, priorities)
  /\ options' = OptionsAfterNormalize(options, constraintResults.validOptions, priorities)
  /\ pc' = "rankOptions"
  /\ UNCHANGED <<constraints, priorities, settings, http, constraintResults, rankedOptions,
                 scoringResults, rankedOptionsWithTradeOffs, summary, explanations>>

\* scoreOptions, steps 3 and 4: sort scoredOptions in place, rank, apply
\* max_results and return (reading settings.max_results of null throws)
ScoreRankOptions ==
  /\ pc = "rankOptions"
  /\ settings # Null
  /\ scoredOptions' = SortByTotalScore(scoredOptions)
  /\ rankedOptions' = AssignRanks(scoredOptions')
  /\ scoringResults' = RankedResults(options, constraintResults, rankedOptions', settings)
  /\ pc' = "generateTradeOffAnalysis"
  /\ UNCHANGED <<input, http, constraintResults,
                 rankedOptionsWithTradeOffs, summary, explanations>>

\* const rankedOptionsWithTradeOffs = generateTradeOffAnalysis(scoringResults.rankedOptions, priorities)
StepTradeOffAnalysis ==
  /\ pc = "generateTradeOffAnalysis"
  /\ rankedOptionsWithTradeOffs' =
       GenerateTradeOffAnalysis(scoringResults.rankedOptions, priorities)
  /\ scoringResults' =
       [scoringResults EXCEPT !.rankedOptions = RankedAfterAnalysis(@)]
  /\ pc' = "generateSummary"
  /\ UNCHANGED <<input, http, constraintResults, scoredOptions, rankedOptions,
                 summary, explanations>>

\* const summary = generateSummary(scoringResults, options)
StepSummary ==
  /\ pc = "generateSummary"
  /\ summary' = GenerateSummary(scoringResults, options)
  /\ pc' = "generateExplanations"
  /\ UNCHANGED <<input, http, constraintResults, scoredOptions, rankedOptions,
                 scoringResults, rankedOptionsWithTradeOffs, explanations>>

\* const explanations = generateExplanations(priorities, settings); return
\* (reading settings.algorithm of null throws)
StepExplanations ==
  /\ pc = "generateExplanations"
  /\ settings # Null
  /\ explanations' = GenerateExplanations(priorities, settings)
  /\ pc' = "done"
  /\ UNCHANGED <<input, http, constraintResults, scoredOptions, rankedOptions,
                 scoringResults, rankedOptionsWithTradeOffs, summary>>

Next ==
  \/ ScoreApplyConstraints
  \/ ScoreCalculateWeightedScores
  \/ ScoreRankOptions
  \/ StepTradeOffAnalysis
  \/ StepSummary
  \/ StepExplanations

(***************************************************************************)
(* The /api/recommend handler around processComparison                     *)
(***************************************************************************)
\* sendErrorResponse(res, statusCode, message, additionalData)
SendErrorResponse(statusCode, message, additionalData) ==
  [statusCode |-> statusCode,
   json |-> [status |-> "error", message |-> message] @@ additionalData]

\* sendSuccessResponse(res, results, metadata)
SendSuccessResponse(results, metadata) ==
  [statusCode |-> 200,
   json |-> [status |-> "success",
             results |-> results,
             metadata |-> [algorithm_used |-> metadata.algorithm,
                           input_summary |-> metadata.inputSummary]]]

\* the body passes the handler's own check: req.body && Object.keys(req.body).length > 0
BodyGiven(request) == Truthy(request.body) /\ KeyCount(request.body) > 0

\* const { options, constraints, priorities, settings = {} } = req.body
Destructured(body) ==
  Obj([k \in DOMAIN body.o \cup {"settings"} |->
         IF k \in DOMAIN body.o THEN body.o[k] ELSE Obj(<<>>)])

\* a weight as the scoring model holds it, in hundredths
Hundredths(weight) == (weight.n * Hundred) \div weight.d

\* the validated options, constraints, priorities and settings as the scoring
\* model reads them: the same values, with records for the objects of known shape
OptionsOf(opts) ==
  Array([i \in 1..Len(opts.a) |->
     [id |-> KeyOf(Get(opts.a[i], "id")),
      name |-> KeyOf(Get(opts.a[i], "name")),
      features |-> Get(opts.a[i], "features").o]])
ConstraintsOf(cs) ==
  Array([i \in 1..Len(cs.a) |->
     [criteria |-> KeyOf(Get(cs.a[i], "criteria")),
      operator |-> KeyOf(Get(cs.a[i], "operator")),
      value |-> Get(cs.a[i], "value"),
      required |-> IF Get(cs.a[i], "required") = Undefined THEN "omitted"
                   ELSE IF Get(cs.a[i], "required").b THEN "true" ELSE "false"]])
PrioritiesOf(prios) ==
  Array([i \in 1..Len(prios.a) |->
     [criteria |-> KeyOf(Get(prios.a[i], "criteria")),
      weight |-> Hundredths(Get(prios.a[i], "weight")),
      optimization |-> KeyOf(Get(prios.a[i], "optimization"))]])
SettingsOf(stg) == IF stg.t = "object" THEN stg.o ELSE stg

\* req.method !== 'POST': 405
HandlerMethodNotAllowed ==
  /\ pc = "handler"
  /\ req.method # "POST"
  /\ res' = Append(res, SendErrorResponse(405, "Method not allowed. Use POST.",
                                          [allowedMethods |-> <<"POST">>]))
  /\ pc' = "responded"
  /\ UNCHANGED <<input, req, validation, constraintResults, scoredOptions, rankedOptions,
                 scoringResults, rankedOptionsWithTradeOffs, summary, explanations>>

\* !req.body || Object.keys(req.body).length === 0: 400
HandlerBodyRequired ==
  /\ pc = "handler"
  /\ req.method = "POST"
  /\ ~BodyGiven(req)
  /\ res' = Append(res, SendErrorResponse(400, "Request body is required",
                     [requiredFields |-> <<"options", "constraints", "priorities">>]))
  /\ pc' = "responded"
  /\ UNCHANGED <<input, req, validation, constraintResults, scoredOptions, rankedOptions,
                 scoringResults, rankedOptionsWithTradeOffs, summary, explanations>>

\* validateRequest throws: the handler's catch answers 500 (the error is a
\* TypeError, not a SyntaxError)
HandlerValidationThrows ==
  /\ pc = "handler"
  /\ req.method = "POST"
  /\ BodyGiven(req)
  /\ ValidateRequest(Destructured(req.body)).threw
  /\ res' = Append(res, SendErrorResponse(500,
                     "Internal server error during comparison processing", <<>>))
  /\ pc' = "responded"
  /\ UNCHANGED <<input, req, validation, constraintResults, scoredOptions, rankedOptions,
                 scoringResults, rankedOptionsWithTradeOffs, summary, explanations>>

\* !validation.valid: 400 with the errors
HandlerValidationFailed ==
  /\ pc = "handler"
  /\ req.method = "POST"
  /\ BodyGiven(req)
  /\ validation' = ValidateRequest(Destructured(req.body))
  /\ ~validation'.threw
  /\ ~validation'.valid
  /\ res' = Append(res, SendErrorResponse(400, validation'.message,
                     [errors |-> validation'.errors,
                      errorCount |-> validation'.errorCount]))
  /\ pc' = "responded"
  /\ UNCHANGED <<input, req, constraintResults, scoredOptions, rankedOptions,
                 scoringResults, rankedOptionsWithTradeOffs, summary, explanations>>

\* validation.valid: processComparison({ options, constraints, priorities, settings })
\* is called
HandlerProcessComparison ==
  /\ pc = "handler"
  /\ req.method = "POST"
  /\ BodyGiven(req)
  /\ validation' = ValidateRequest(Destructured(req.body))
  /\ ~validation'.threw
  /\ validation'.valid
  /\ options' = OptionsOf(Get(req.body, "options"))
  /\ constraints' = ConstraintsOf(Get(req.body, "constraints"))
  /\ priorities' = PrioritiesOf(Get(req.body, "priorities"))
  /\ settings' = SettingsOf(Get(Destructured(req.body), "settings"))
  /\ pc' = "scoreOptions"
  /\ UNCHANGED <<req, res, constraintResults, scoredOptions, rankedOptions,
                 scoringResults, rankedOptionsWithTradeOffs, summary, explanations>>

\* processComparison throws (settings is null where scoreOptions or
\* generateExplanations reads a property of it); its catch rethrows an Error
\* and the handler's catch answers 500
HandlerProcessingThrows ==
  /\ pc \in {"rankOptions", "generateExplanations"}
  /\ settings = Null
  /\ res' = Append(res, SendErrorResponse(500,
                     "Internal server error during comparison processing", <<>>))
  /\ pc' = "responded"
  /\ UNCHANGED <<input, req, validation, constraintResults, scoredOptions, rankedOptions,
                 scoringResults, rankedOptionsWithTradeOffs, summary, explanations>>

\* processComparison returned: sendSuccessResponse, 200
HandlerSendSuccess ==
  /\ pc = "done"
  /\ req # NotYet
  /\ res' = Append(res, SendSuccessResponse(
                     [rankedOptions |-> rankedOptionsWithTradeOffs,
                      summary |-> summary,
                      explanations |-> explanations],
                     [algorithm |-> IF Truthy(GetNestedValue(settings, "algorithm"))
                                    THEN GetNestedValue(settings, "algorithm")
                                    ELSE WeightedSum,
                      inputSummary |-> [optionsCount |-> Len(options),
                                        constraintsCount |-> Len(constraints),
                                        prioritiesCount |-> Len(priorities)]]))
  /\ pc' = "responded"
  /\ UNCHANGED <<input, req, validation, constraintResults, scoredOptions, rankedOptions,
                 scoringResults, rankedOptionsWithTradeOffs, summary, explanations>>

NextHandler ==
  \/ HandlerMethodNotAllowed
  \/ HandlerBodyRequired
  \/ HandlerValidationThrows
  \/ HandlerValidationFailed
  \/ HandlerProcessComparison
  \/ ScoreApplyConstraints
  \/ ScoreCalculateWeightedScores
  \/ ScoreRankOptions
  \/ StepTradeOffAnalysis
  \/ StepSummary
  \/ StepExplanations
  \/ HandlerProcessingThrows
  \/ HandlerSendSuccess

(***************************************************************************)
(* Inputs                                                                  *)
(***************************************************************************)
\* the option ids and names of a request, by position
OptionIds == <<"option1", "option2", "option3">>
OptionNames == <<"Option 1", "Option 2", "Option 3">>

\* every non-empty features object holding some of the criteria of valuesOf (a
\* function from criterion to the values it may take); validateSingleOption
\* rejects an option without features
FeatureMaps(valuesOf) ==
  UNION {{f \in [present -> UNION {valuesOf[c] : c \in DOMAIN valuesOf}] :
            \A c \in present : f[c] \in valuesOf[c]} :
         present \in (SUBSET DOMAIN valuesOf) \ {{}}}

\* the option at position i of a request
Option(i, features) == [id |-> OptionIds[i], name |-> OptionNames[i], features |-> features]

\* the lists of 2..Len(OptionIds) options whose features come from maps
OptionLists(maps) ==
  UNION {{[i \in 1..n |-> Option(i, f[i])] : f \in [1..n -> maps]} :
         n \in 2..Len(OptionIds)}

\* validateCriteriaExistence: every priority names a feature that some option has
CriteriaExist(opts, prios) ==
  \A p \in 1..Len(prios) :
     \E i \in 1..Len(opts) : prios[p].criteria \in DOMAIN opts[i].features

\* settings with max_results unset or in 1..MaxResults
SettingsSet ==
  {<<>>} \cup {[max_results |-> Num(k)] : k \in 1..MaxResults}

Prio(c, w, o) == [criteria |-> c, weight |-> w, optimization |-> o]
Cons(c, op, v, r) == [criteria |-> c, operator |-> op, value |-> v, required |-> r]

\* the priority lists of the general specification: weights in hundredths, summing to 1
PriorityLists ==
  {<<Prio("cost", 100, "minimize")>>,
   <<Prio("cost", 60, "minimize"), Prio("performance", 40, "maximize")>>,
   <<Prio("performance", 50, "maximize"), Prio("cost", 50, "maximize")>>}

\* the constraint lists of the general specification
ConstraintLists ==
  {<<>>,
   <<Cons("cost", "lte", Num(1), "omitted")>>,
   <<Cons("cost", "gt", Num(0), "true"), Cons("performance", "gte", Num(1), "false")>>}

\* the feature values of the general specification
GeneralValues ==
  [c \in {"cost", "performance"} |->
     IF c = "cost" THEN {Num(v) : v \in 0..MaxVal} ELSE {Num(0), Num(1)}]

InitResults ==
  /\ pc = "scoreOptions"
  /\ constraintResults = NotYet
  /\ scoredOptions = NotYet
  /\ rankedOptions = NotYet
  /\ scoringResults = NotYet
  /\ rankedOptionsWithTradeOffs = NotYet
  /\ summary = NotYet
  /\ explanations = NotYet
  /\ req = NotYet
  /\ validation = NotYet
  /\ res = <<>>

Init ==
  /\ priorities \in PriorityLists
  /\ options \in {o \in OptionLists(FeatureMaps(GeneralValues)) : CriteriaExist(o, priorities)}
  /\ constraints \in ConstraintLists
  /\ settings \in SettingsSet
  /\ InitResults

Spec == Init /\ [][Next]_vars

(***************************************************************************)
(* Scenario A: the "Valid Request" of validation-tests.js, under every     *)
(* single constraint on its two criteria and every max_results             *)
(***************************************************************************)
ScenarioAOptions ==
  <<Option(1, [cost |-> Num(100), performance |-> Num(80)]),
    Option(2, [cost |-> Num(150), performance |-> Num(90)])>>

ScenarioAPriorities ==
  <<Prio("cost", 60, "minimize"), Prio("performance", 40, "maximize")>>

\* no constraint, or one constraint; the request's own is cost lte 200, required
ScenarioAConstraints ==
  {<<>>} \cup
  {<<Cons(c, op, Num(v), r)>> :
     c \in {"cost", "performance"}, op \in {"lte", "gte"},
     v \in {80, 100, 150, 200}, r \in {"true", "false"}}

InitScenarioA ==
  /\ options = ScenarioAOptions
  /\ constraints \in ScenarioAConstraints
  /\ priorities = ScenarioAPriorities
  /\ settings \in SettingsSet
  /\ InitResults

SpecScenarioA == InitScenarioA /\ [][Next]_vars

(***************************************************************************)
(* Rounding: three options over four criteria whose values 0, 1 and 8 give *)
(* the middle option normalized values of 0, 1/8 and 1                     *)
(***************************************************************************)
RoundingCriteria == {"cost", "performance", "reliability", "latency"}

RoundingOptions ==
  {<<Option(1, f1), Option(2, f2), Option(3, f3)>> :
     f1 \in [RoundingCriteria -> {Num(0)}],
     f2 \in [RoundingCriteria -> {Num(0), Num(1), Num(8)}],
     f3 \in [RoundingCriteria -> {Num(8)}]}

RoundingPriorityLists ==
  {<<Prio("cost", 60, "minimize"), Prio("performance", 40, "maximize")>>,
   <<Prio("cost", 40, "maximize"), Prio("performance", 60, "maximize")>>,
   <<Prio("cost", 34, "maximize"), Prio("performance", 33, "maximize"),
     Prio("reliability", 33, "minimize")>>,
   <<Prio("cost", 25, "maximize"), Prio("performance", 25, "maximize"),
     Prio("reliability", 25, "maximize"), Prio("latency", 25, "maximize")>>}

RoundingConstraintLists ==
  {<<>>, <<Cons("latency", "lte", Num(1), "true")>>}

InitRounding ==
  /\ options \in RoundingOptions
  /\ constraints \in RoundingConstraintLists
  /\ priorities \in RoundingPriorityLists
  /\ settings \in SettingsSet
  /\ InitResults

SpecRounding == InitRounding /\ [][Next]_vars

(***************************************************************************)
(* The PostgreSQL-vs-DynamoDB request of test-examples.js, under its own   *)
(* constraints and settings and under other bounds and limits              *)
(***************************************************************************)
PostgresDynamoOptions ==
  <<[id |-> "postgresql-rds", name |-> "Amazon RDS PostgreSQL",
     features |->
       [cost_per_hour |-> Rat(145, 1000), read_latency_ms |-> Num(5),
        write_latency_ms |-> Num(8), max_connections |-> Num(5000),
        scalability_score |-> Num(7), consistency_model |-> Str(<<"ACID">>),
        query_flexibility |-> Num(10), operational_overhead |-> Num(3),
        backup_automation |-> Bool(TRUE), multi_region |-> Bool(FALSE)]],
    [id |-> "dynamodb", name |-> "Amazon DynamoDB",
     features |->
       [cost_per_hour |-> Rat(25, 100), read_latency_ms |-> Num(1),
        write_latency_ms |-> Num(2), max_connections |-> Num(40000),
        scalability_score |-> Num(10),
        consistency_model |-> Str(<<"Eventually Consistent">>),
        query_flexibility |-> Num(6), operational_overhead |-> Num(1),
        backup_automation |-> Bool(TRUE), multi_region |-> Bool(TRUE)]],
    [id |-> "postgresql-aurora", name |-> "Amazon Aurora PostgreSQL",
     features |->
       [cost_per_hour |-> Rat(29, 100), read_latency_ms |-> Num(3),
        write_latency_ms |-> Num(5), max_connections |-> Num(15000),
        scalability_score |-> Num(9), consistency_model |-> Str(<<"ACID">>),
        query_flexibility |-> Num(10), operational_overhead |-> Num(2),
        backup_automation |-> Bool(TRUE), multi_region |-> Bool(TRUE)]]>>

PostgresDynamoPriorities ==
  <<Prio("cost_per_hour", 25, "minimize"), Prio("read_latency_ms", 30, "minimize"),
    Prio("scalability_score", 25, "maximize"), Prio("query_flexibility", 20, "maximize")>>

\* the three constraints of the request, with the given bounds on cost and latency
PostgresDynamoConstraintsWith(cost, latency) ==
  <<Cons("cost_per_hour", "lte", cost, "true"),
    Cons("read_latency_ms", "lte", latency, "true"),
    Cons("backup_automation", "eq", Bool(TRUE), "false")>>

\* the request's own constraints: cost_per_hour <= 0.30, read_latency_ms <= 10
PostgresDynamoConstraints == PostgresDynamoConstraintsWith(Rat(30, 100), Num(10))

\* the request's own settings
PostgresDynamoSettings ==
  [algorithm |-> WeightedSum, include_explanations |-> Bool(TRUE), max_results |-> Num(10)]

InitPostgresDynamo ==
  /\ options = PostgresDynamoOptions
  /\ priorities = PostgresDynamoPriorities
  /\ constraints \in {PostgresDynamoConstraintsWith(cost, latency) :
                        cost \in {Rat(10, 100), Rat(145, 1000), Rat(25, 100), Rat(30, 100)},
                        latency \in {Num(0), Num(1), Num(3), Num(10)}}
  /\ settings \in {PostgresDynamoSettings} \cup SettingsSet
  /\ InitResults

SpecPostgresDynamo == InitPostgresDynamo /\ [][Next]_vars

(***************************************************************************)
(* Requests to the handler: well-formed and malformed bodies               *)
(***************************************************************************)
\* an object holding the given keys, a key whose value is undefined left out
ObjWithout(all) == Obj([k \in {k \in DOMAIN all : all[k] # Undefined} |-> all[k]])

\* one entry of options: id, name and features present or not, of the right
\* type or not
OptionObjects ==
  {ObjWithout([id |-> id, name |-> name, features |-> features]) :
     id \in {Undefined, Str(<<>>), Num(7), Str(<<"option1">>), Str(<<"option2">>)},
     name \in {Undefined, Str(<<"Option 1">>)},
     features \in {Undefined, Obj(<<>>), Arr(<<Num(1)>>), Obj([cost |-> Num(0)]),
                   Obj([cost |-> Num(1), performance |-> Num(1)])}}
OptionEntries == OptionObjects \cup {Null, Num(5)}

\* the first entry of a two-entry options array
FirstOptions ==
  {Obj([id |-> Str(<<"option1">>), name |-> Str(<<"Option 1">>),
        features |-> Obj([cost |-> Num(0), performance |-> Num(0)])]),
   Obj([name |-> Str(<<"Option 1">>), features |-> Obj([cost |-> Num(0)])]),
   Null}

OptionsValues ==
  {Undefined, Null, Str(<<"option1">>), Arr(<<>>)}
  \cup {Arr(<<e>>) : e \in OptionEntries}
  \cup {Arr(<<e1, e2>>) : e1 \in FirstOptions, e2 \in OptionEntries}

\* options of a well-formed request
GoodOptions ==
  {Arr(<<Obj([id |-> Str(<<"option1">>), name |-> Str(<<"Option 1">>),
              features |-> Obj([cost |-> Num(0), performance |-> Num(0)])]),
         Obj([id |-> Str(<<"option2">>), name |-> Str(<<"Option 2">>),
              features |-> Obj([cost |-> Num(1)])])>>),
   Arr(<<Obj([id |-> Str(<<"option1">>), name |-> Str(<<"Option 1">>),
              features |-> Obj([cost |-> Num(1)])]),
         Obj([id |-> Str(<<"option2">>), name |-> Str(<<"Option 2">>),
              features |-> Obj([cost |-> Num(0)])])>>)}

\* one entry of priorities
PriorityObjects ==
  {ObjWithout([criteria |-> criteria, weight |-> weight, optimization |-> optimization]) :
     criteria \in {Undefined, Num(3), Str(<<"cost">>), Str(<<"performance">>),
                   Str(<<"nonexistent_field">>)},
     weight \in {Undefined, Str(<<"0.5">>), Rat(0 - 10, Hundred), Rat(30, Hundred),
                 Rat(50, Hundred), Num(1), Rat(150, Hundred)},
     optimization \in {Undefined, Str(<<"minimize">>), Str(<<"maximize">>),
                       Str(<<"both">>)}}
PriorityEntries == PriorityObjects \cup {Null, Num(5)}

\* the first entry of a two-entry priorities array
FirstPriorities ==
  {Obj([criteria |-> Str(<<"cost">>), weight |-> Rat(50, Hundred),
        optimization |-> Str(<<"minimize">>)]),
   Obj([criteria |-> Str(<<"cost">>), weight |-> Rat(30, Hundred),
        optimization |-> Str(<<"maximize">>)]),
   Null}

PrioritiesValues ==
  {Undefined, Null, Str(<<"cost">>), Arr(<<>>)}
  \cup {Arr(<<e>>) : e \in PriorityEntries}
  \cup {Arr(<<e1, e2>>) : e1 \in FirstPriorities, e2 \in PriorityEntries}

\* priorities of a well-formed request
GoodPriorities ==
  {Arr(<<Obj([criteria |-> Str(<<"cost">>), weight |-> Num(1),
              optimization |-> Str(<<"minimize">>)])>>),
   Arr(<<Obj([criteria |-> Str(<<"cost">>), weight |-> Rat(60, Hundred),
              optimization |-> Str(<<"minimize">>)]),
         Obj([criteria |-> Str(<<"performance">>), weight |-> Rat(40, Hundred),
              optimization |-> Str(<<"maximize">>)])>>)}

ConstraintsValues ==
  {Undefined, Str(<<"cost">>), Arr(<<>>), Arr(<<Null>>)}
  \cup {Arr(<<ObjWithout([criteria |-> criteria, operator |-> operator,
                          value |-> value, required |-> required])>>) :
          criteria \in {Undefined, Str(<<"cost">>)},
          operator \in {Str(<<"lte">>), Str(<<"invalid_op">>)},
          value \in {Null, Num(0)},
          required \in {Undefined, Bool(TRUE), Bool(FALSE), Str(<<"yes">>)}}

SettingsValues ==
  {Undefined, Null, Arr(<<>>)}
  \cup {ObjWithout([algorithm |-> algorithm, max_results |-> max_results,
                    include_explanations |-> include_explanations]) :
          algorithm \in {Undefined, Null, Str(<<"weighted_sum">>), Str(<<"topsis">>),
                         Str(<<"ahp">>), Str(<<"invalid_algorithm">>)},
          max_results \in {Undefined, Str(<<"1">>), Num(0 - 1), Num(0), Rat(3, 2)}
                          \cup {Num(k) : k \in 1..MaxResults},
          include_explanations \in {Undefined, Bool(TRUE), Num(1)}}

\* the bodies: every options value with good priorities, every priorities
\* value with good options, and every constraints and settings value
RequestBodies ==
  {Undefined, Obj(<<>>)}
  \cup {ObjWithout([options |-> o, constraints |-> Arr(<<>>), priorities |-> p,
                    settings |-> Undefined]) :
          o \in OptionsValues, p \in GoodPriorities}
  \cup {ObjWithout([options |-> o, constraints |-> Arr(<<>>), priorities |-> p,
                    settings |-> Undefined]) :
          o \in GoodOptions, p \in PrioritiesValues}
  \cup {ObjWithout([options |-> o, constraints |-> c, priorities |-> p,
                    settings |-> s]) :
          o \in GoodOptions, c \in ConstraintsValues, p \in GoodPriorities,
          s \in SettingsValues}

InitHandler ==
  /\ req \in {[method |-> m, body |-> b] : m \in {"POST", "GET"}, b \in RequestBodies}
  /\ pc = "handler"
  /\ options = NotYet
  /\ constraints = NotYet
  /\ priorities = NotYet
  /\ settings = NotYet
  /\ validation = NotYet
  /\ res = <<>>
  /\ constraintResults = NotYet
  /\ scoredOptions = NotYet
  /\ rankedOptions = NotYet
  /\ scoringResults = NotYet
  /\ rankedOptionsWithTradeOffs = NotYet
  /\ summary = NotYet
  /\ explanations = NotYet

SpecHandler == InitHandler /\ [][NextHandler]_vars

(***************************************************************************)
(* Requests with one constraint on the attribute "tier": the first         *)
(* option's value at it, the operand and the operator vary over the        *)
(* kinds of value JSON carries                                             *)
(***************************************************************************)
\* the values an option may hold at "tier"
TierValues ==
  {Null, Num(0), Num(1), Num(2), Str(<<>>), Str(<<"1">>), Str(<<"a">>),
   Str(<<"A", "b">>), [t |-> "boolean", b |-> TRUE], [t |-> "boolean", b |-> FALSE],
   Arr(<<Num(1)>>)}
\* the operands of the constraint
TierOperands ==
  {Undefined, Null, Num(1), Str(<<"1">>), Str(<<"a", "B">>), Str(<<"b">>),
   [t |-> "boolean", b |-> TRUE], Arr(<<>>), Arr(<<Num(1), Str(<<"A", "b">>)>>)}

InitConstraints ==
  /\ options \in {<<Option(1, f), Option(2, [cost |-> Num(0), tier |-> Str(<<"a", "b">>)])>> :
                     f \in {[cost |-> Num(1)]}
                            \cup {[cost |-> Num(1), tier |-> v] : v \in TierValues}}
  /\ priorities = <<Prio("cost", 100, "maximize")>>
  /\ constraints \in {<<Cons("tier", op, v, r)>> :
                         op \in {"lt", "lte", "gt", "gte", "eq", "neq", "in", "contains",
                                  "between"},
                         v \in TierOperands,
                         r \in {"true", "false", "omitted"}}
  /\ settings = <<>>
  /\ InitResults

SpecConstraints == InitConstraints /\ [][Next]_vars

(***************************************************************************)
(* Requests whose middle option scores next to a boundary of the           *)
(* performance levels: the costs span 0..100000, so that a cost of v       *)
(* normalizes to v / 100000 and scores v / 1000                            *)
(***************************************************************************)
\* the middle cost has a score on, just below or just above 20, 40, 60 or 80
InitThresholds ==
  /\ options \in {<<Option(1, [cost |-> Num(0)]), Option(2, [cost |-> Num(v)]),
                      Option(3, [cost |-> Num(100000)])>> :
                    v \in {1000 * t + d : t \in {20, 40, 60, 80}, d \in {0 - 6, 0 - 4, 0, 4, 6}}}
  /\ priorities \in {<<Prio("cost", 100, o)>> : o \in {"minimize", "maximize"}}
  /\ constraints = <<>>
  /\ settings \in SettingsSet
  /\ InitResults

SpecThresholds == InitThresholds /\ [][Next]_vars

(***************************************************************************)
(* Requests in which an option may hold null at a priority's criterion:    *)
(* JSON carries null, and validation asks only that the key exists         *)
(***************************************************************************)
\* the feature values: cost may be null
NullableValues ==
  [c \in {"cost", "performance"} |->
     IF c = "cost" THEN {Null, Num(0), Num(2)} ELSE {Num(0), Num(1)}]

InitNullable ==
  /\ priorities \in {<<Prio("cost", 100, "minimize")>>,
                      <<Prio("cost", 60, "maximize"), Prio("performance", 40, "maximize")>>}
  /\ options \in {o \in {<<Option(1, f1), Option(2, f2)>> :
                              f1 \in FeatureMaps(NullableValues),
                              f2 \in FeatureMaps(NullableValues)} :
                     CriteriaExist(o, priorities)}
  \* no constraint, or an optional one that every number passes
  /\ constraints \in {<<>>, <<Cons("cost", "neq", Num(5), "false")>>}
  /\ settings = <<>>
  /\ InitResults

SpecNullable == InitNullable /\ [][Next]_vars
(***************************************************************************)
(* Properties                                                              *)
(***************************************************************************)
\* scoreOptions has returned: scoringResults holds its result
ScoreOptionsReturned ==
  pc \in {"generateTradeOffAnalysis", "generateSummary", "generateExplanations", "done"}
\* generateTradeOffAnalysis has returned
TradeOffsBuilt == pc \in {"generateSummary", "generateExplanations", "done"}
\* generateSummary has returned
SummaryBuilt == pc \in {"generateExplanations", "done"}

\* the option meets every constraint whose required flag is not false
MeetsRequired(option) ==
  \A j \in 1..Len(constraints) :
     constraints[j].required # "false" => EvaluateConstraint(option, constraints[j])
\* the positions of the input options that pass the required constraints
Passing == {k \in 1..Len(options) : MeetsRequired(options[k])}
\* the position of an option id in the input
InputPosition(id) == CHOOSE k \in 1..Len(options) : options[k].id = id
\* the ranking before max_results is applied; empty when scoreOptions returned early
FullRanking == IF Len(constraintResults.validOptions) = 0 THEN <<>> ELSE rankedOptions

Abs(x) == IF x < 0 THEN 0 - x ELSE x

\* C1: no option that fails a constraint whose required flag is not false is in
\* scoreOptions' rankedOptions or in the pipeline's ranked output, and every
\* ranked option carries constraintCompliance.passed = true.
C1_ExcludedNeverRanked ==
  /\ ScoreOptionsReturned =>
       \A i \in 1..Len(scoringResults.rankedOptions) :
          /\ scoringResults.rankedOptions[i].constraintCompliance.passed = TRUE
          /\ InputPosition(scoringResults.rankedOptions[i].optionId) \in Passing
  /\ TradeOffsBuilt =>
       \A i \in 1..Len(rankedOptionsWithTradeOffs) :
          /\ rankedOptionsWithTradeOffs[i].constraintCompliance.passed = TRUE
          /\ InputPosition(rankedOptionsWithTradeOffs[i].optionId) \in Passing

\* an option fails a required constraint while another option is ranked
C1_Witness ==
  /\ pc = "done"
  /\ Len(rankedOptionsWithTradeOffs) > 0
  /\ \E k \in 1..Len(options) : k \notin Passing

\* C2: the full ranking (before max_results) lists the N options passing the
\* required constraints in non-increasing totalScore order, rank is the position
\* 1..N in the list, and options of equal totalScore keep their input order.
C2_FullRankingSorted ==
  (ScoreOptionsReturned /\ Len(constraintResults.validOptions) > 0) =>
    /\ Len(rankedOptions) = Cardinality(Passing)
    /\ {InputPosition(rankedOptions[i].optionId) : i \in 1..Len(rankedOptions)} = Passing
    /\ \A i \in 1..Len(rankedOptions) : rankedOptions[i].rank = i
    /\ \A i \in 1..Len(rankedOptions), j \in 1..Len(rankedOptions) :
         i < j =>
           /\ rankedOptions[i].totalScore >= rankedOptions[j].totalScore
           /\ rankedOptions[i].totalScore = rankedOptions[j].totalScore =>
                InputPosition(rankedOptions[i].optionId)
                  < InputPosition(rankedOptions[j].optionId)

\* three options are ranked, two of them tied behind or ahead of a third
C2_Witness ==
  /\ pc = "done"
  /\ Len(rankedOptions) = 3
  /\ \E i \in 1..2 : rankedOptions[i].totalScore = rankedOptions[i + 1].totalScore
  /\ rankedOptions[1].totalScore > rankedOptions[3].totalScore

\* no reason of the scored option has status missing_data
NoMissingData(o) == \A p \in 1..Len(o.reasons) : o.reasons[p].status # "missing_data"
\* |totalScore - sum of the reasons' weightContribution|, in hundredths
ContributionGap(o) ==
  Abs(o.totalScore
      - SumInts(Array([p \in 1..Len(o.reasons) |-> o.reasons[p].weightContribution])))

\* C3 as stated: for every returned option without a missing_data reason,
\* totalScore is within 0.01 of the sum of its weightContribution values, for
\* any number of priorities.
C3_WithinOneHundredth ==
  ScoreOptionsReturned =>
    \A i \in 1..Len(scoringResults.rankedOptions) :
       NoMissingData(scoringResults.rankedOptions[i]) =>
         ContributionGap(scoringResults.rankedOptions[i]) <= 1

\* C3, amended: for every returned option without a missing_data reason and n
\* priorities, totalScore is within 0.01 * (1 + n/2) of the sum of its
\* weightContribution values (n + 2 roundings of at most 0.005 each; 0.02 is
\* reached with four priorities), and within 0.01 when there are at most two
\* priorities whose weights sum to 1.
C3_WithinRoundingBudget ==
  ScoreOptionsReturned =>
    \A i \in 1..Len(scoringResults.rankedOptions) :
       NoMissingData(scoringResults.rankedOptions[i]) =>
         /\ 2 * ContributionGap(scoringResults.rankedOptions[i]) <= 2 + Len(priorities)
         /\ (/\ Len(priorities) <= 2
             /\ SumInts(Array([p \in 1..Len(priorities) |-> priorities[p].weight])) = Hundred)
              => ContributionGap(scoringResults.rankedOptions[i]) <= 1

\* four priorities, and a returned option whose contributions sum to 0.02 more
\* or less than its totalScore
C3_Witness ==
  /\ pc = "done"
  /\ Len(priorities) = 4
  /\ \E i \in 1..Len(scoringResults.rankedOptions) :
        /\ NoMissingData(scoringResults.rankedOptions[i])
        /\ ContributionGap(scoringResults.rankedOptions[i]) = 2

\* C4: generateSummary's topRecommendation is null when no option passes the
\* required constraints; its confidence is exactly 1.0 when exactly one option
\* passes and lies in [0.5, 1.0] when two or more pass.
C4_Confidence ==
  SummaryBuilt =>
    /\ Cardinality(Passing) = 0 => summary.topRecommendation = Null
    /\ Cardinality(Passing) = 1 =>
         /\ summary.topRecommendation # Null
         /\ summary.topRecommendation.confidence = Hundred
    /\ Cardinality(Passing) >= 2 =>
         /\ summary.topRecommendation # Null
         /\ summary.topRecommendation.confidence >= 50
         /\ summary.topRecommendation.confidence <= Hundred

\* two or more options pass and the confidence is strictly inside (0.5, 1.0)
C4_Witness ==
  /\ pc = "done"
  /\ Cardinality(Passing) >= 2
  /\ summary.topRecommendation.confidence > 50
  /\ summary.topRecommendation.confidence < Hundred

\* C6: Scenario A with no option excluded: Option1 scores cost 100 and
\* performance 0, Option2 scores cost 0 and performance 100, the totals are
\* 60.00 and 40.00, and Option1 has rank 1.
C6_ScenarioA ==
  (ScoreOptionsReturned /\ Cardinality(Passing) = 2) =>
    /\ Len(rankedOptions) = 2
    /\ rankedOptions[1].optionId = "option1"
    /\ rankedOptions[1].rank = 1
    /\ rankedOptions[1].criteriaScores["cost"].score = 100 * Hundred
    /\ rankedOptions[1].criteriaScores["performance"].score = 0
    /\ rankedOptions[1].totalScore = 60 * Hundred
    /\ rankedOptions[2].optionId = "option2"
    /\ rankedOptions[2].rank = 2
    /\ rankedOptions[2].criteriaScores["cost"].score = 0
    /\ rankedOptions[2].criteriaScores["performance"].score = 100 * Hundred
    /\ rankedOptions[2].totalScore = 40 * Hundred
    /\ scoringResults.summary.topRecommendation.optionId = "option1"

\* the request of the test case (cost lte 200, required) has been processed
C6_Witness ==
  /\ pc = "done"
  /\ constraints = <<Cons("cost", "lte", Num(200), "true")>>
  /\ Len(rankedOptionsWithTradeOffs) >= 1
  /\ rankedOptionsWithTradeOffs[1].optionId = "option1"
  /\ rankedOptionsWithTradeOffs[1].totalScore = 60 * Hundred

\* the ids of the options of the full ranking
RankedIds == {FullRanking[i].optionId : i \in 1..Len(FullRanking)}

\* C7: scoreOptions' constraintResults holds a compliance report for exactly the
\* input option ids; the report of an option excluded from the ranking has
\* passed = false; every report's constraintReasons has one record per
\* constraint, in constraint order, required or not.
C7_ConstraintResultsComplete ==
  ScoreOptionsReturned =>
    /\ DOMAIN scoringResults.constraintResults = {options[k].id : k \in 1..Len(options)}
    /\ \A k \in 1..Len(options) :
         /\ options[k].id \notin RankedIds =>
              scoringResults.constraintResults[options[k].id].passed = FALSE
         /\ k \notin Passing =>
              scoringResults.constraintResults[options[k].id].passed = FALSE
         /\ Len(scoringResults.constraintResults[options[k].id].constraintReasons)
              = Len(constraints)
         /\ \A j \in 1..Len(constraints) :
              /\ scoringResults.constraintResults[options[k].id].constraintReasons[j].criteria
                   = constraints[j].criteria
              /\ scoringResults.constraintResults[options[k].id].constraintReasons[j].operator
                   = constraints[j].operator
              /\ scoringResults.constraintResults[options[k].id].constraintReasons[j].constraintValue
                   = constraints[j].value
              /\ scoringResults.constraintResults[options[k].id].constraintReasons[j].required
                   = (constraints[j].required # "false")
              /\ scoringResults.constraintResults[options[k].id].constraintReasons[j].status
                   = IF EvaluateConstraint(options[k], constraints[j])
                     THEN "passed" ELSE "failed"

\* a required and an optional constraint, one option excluded and one ranked
C7_Witness ==
  /\ pc = "done"
  /\ Len(constraints) = 2
  /\ \E j \in 1..Len(constraints) : constraints[j].required = "false"
  /\ \E k \in 1..Len(options) : options[k].id \notin RankedIds
  /\ RankedIds # {}

\* the summary of a request none of whose options passes
NoOptionSummary ==
  [totalOptionsEvaluated |-> Len(options),
   optionsMeetingConstraints |-> 0,
   topRecommendation |-> Null]

\* C8: when no option passes the required constraints, scoreOptions returns
\* early with rankedOptions = [] and a summary with totalOptionsEvaluated = the
\* number of input options, optionsMeetingConstraints = 0 and topRecommendation
\* = null, and the later steps return an empty ranked list and the same summary.
C8_NoOptionPasses ==
  Passing = {} =>
    /\ pc \notin {"calculateWeightedScores", "rankOptions"}
    /\ ScoreOptionsReturned =>
         /\ scoringResults.rankedOptions = <<>>
         /\ scoringResults.summary = NoOptionSummary
    /\ TradeOffsBuilt => rankedOptionsWithTradeOffs = <<>>
    /\ SummaryBuilt => summary = NoOptionSummary

\* the pipeline has finished on a request none of whose options passes
C8_Witness ==
  /\ pc = "done"
  /\ Len(constraints) > 0
  /\ Passing = {}

\* min(k, n)
Min(k, n) == IF k < n THEN k ELSE n

\* C9: with settings.max_results = k, rankedOptions is the first min(k, N)
\* options of the full ranking of the N passing options, each with the rank of
\* its position in the full ranking; optionsMeetingConstraints is N and
\* totalOptionsEvaluated is the number of input options.
C9_MaxResults ==
  (ScoreOptionsReturned /\ "max_results" \in DOMAIN settings) =>
    /\ Len(FullRanking) = Cardinality(Passing)
    /\ scoringResults.rankedOptions
         = SubSeq(FullRanking, 1, Min(settings["max_results"].n, Cardinality(Passing)))
    /\ \A i \in 1..Len(scoringResults.rankedOptions) :
         /\ FullRanking[scoringResults.rankedOptions[i].rank].optionId
              = scoringResults.rankedOptions[i].optionId
         /\ TradeOffsBuilt =>
              /\ rankedOptionsWithTradeOffs[i].optionId = FullRanking[i].optionId
              /\ rankedOptionsWithTradeOffs[i].rank = FullRanking[i].rank
    /\ TradeOffsBuilt =>
         Len(rankedOptionsWithTradeOffs) = Min(settings["max_results"].n, Cardinality(Passing))
    /\ scoringResults.summary.optionsMeetingConstraints = Cardinality(Passing)
    /\ scoringResults.summary.totalOptionsEvaluated = Len(options)
    /\ SummaryBuilt =>
         /\ summary.optionsMeetingConstraints = Cardinality(Passing)
         /\ summary.totalOptionsEvaluated = Len(options)

\* max_results cuts the ranking: more options pass than are returned
C9_Witness ==
  /\ pc = "done"
  /\ "max_results" \in DOMAIN settings
  /\ settings["max_results"].n < Cardinality(Passing)
  /\ Len(rankedOptionsWithTradeOffs) = settings["max_results"].n

\* the priorities whose criterion has no value in the features of the input
\* option with this id
MissingPriorities(id) ==
  {p \in 1..Len(priorities) :
     priorities[p].criteria \notin DOMAIN options[InputPosition(id)].features}

\* C10: for a passing option and a priority whose criterion path is absent from
\* its features, scoring gives that priority a reason with status missing_data,
\* impact neutral and weightContribution 0 and no criteriaScores entry; the
\* other priorities are scored, and totalScore is the rounded weighted sum of
\* their scores alone.
C10_MissingData ==
  (pc = "rankOptions" \/ (ScoreOptionsReturned /\ Len(constraintResults.validOptions) > 0)) =>
    \A i \in 1..Len(scoredOptions) :
       /\ Len(scoredOptions[i].reasons) = Len(priorities)
       /\ \A p \in MissingPriorities(scoredOptions[i].optionId) :
            /\ scoredOptions[i].reasons[p].criteria = priorities[p].criteria
            /\ scoredOptions[i].reasons[p].status = "missing_data"
            /\ scoredOptions[i].reasons[p].impact = "neutral"
            /\ scoredOptions[i].reasons[p].weightContribution = 0
            /\ priorities[p].criteria \notin DOMAIN scoredOptions[i].criteriaScores
       /\ \A p \in (1..Len(priorities)) \ MissingPriorities(scoredOptions[i].optionId) :
            /\ scoredOptions[i].reasons[p].criteria = priorities[p].criteria
            /\ scoredOptions[i].reasons[p].status # "missing_data"
            /\ priorities[p].criteria \in DOMAIN scoredOptions[i].criteriaScores
            /\ scoredOptions[i].reasons[p].details.score
                 = scoredOptions[i].criteriaScores[priorities[p].criteria].score
       /\ scoredOptions[i].totalScore
            = RoundHalfUp(
                SumInts(Array([p \in 1..Len(priorities) |->
                   IF p \in MissingPriorities(scoredOptions[i].optionId) THEN 0
                   ELSE scoredOptions[i].criteriaScores[priorities[p].criteria].score
                          * priorities[p].weight])),
                Hundred)

\* a ranked option lacks the value of one priority and has that of another,
\* which earned it a positive total
C10_Witness ==
  /\ pc = "done"
  /\ \E i \in 1..Len(scoredOptions) :
        /\ MissingPriorities(scoredOptions[i].optionId) # {}
        /\ MissingPriorities(scoredOptions[i].optionId) # 1..Len(priorities)
        /\ scoredOptions[i].totalScore > 0

\* C11: every option of rankedOptions has 0 <= totalScore <= 100.
C11_TotalScoreInRange ==
  ScoreOptionsReturned =>
    \A i \in 1..Len(scoringResults.rankedOptions) :
       /\ scoringResults.rankedOptions[i].totalScore >= 0
       /\ scoringResults.rankedOptions[i].totalScore <= 100 * Hundred

\* C12: in the pipeline's output, whenever the rank-1 option's
\* tradeOffs.strengths is not empty, summary.topRecommendation.reasoning
\* reports that option's totalScore and has the "Key strength:" clause naming
\* its first strength.
C12_KeyStrengthClause ==
  (/\ pc = "done"
   /\ Len(rankedOptionsWithTradeOffs) > 0
   /\ Len(rankedOptionsWithTradeOffs[1].tradeOffs.strengths) > 0) =>
    /\ summary.topRecommendation # Null
    /\ summary.topRecommendation.reasoning.scored = rankedOptionsWithTradeOffs[1].totalScore
    /\ summary.topRecommendation.reasoning.keyStrength
         = LowerCased(rankedOptionsWithTradeOffs[1].tradeOffs.strengths[1])

\* validateRequest has returned its result to the handler
Validated == validation # NotYet
\* the fields of the request body as the handler destructures them
RequestOptions == Get(Destructured(req.body), "options")
RequestPriorities == Get(Destructured(req.body), "priorities")
RequestSettings == Get(Destructured(req.body), "settings")
\* the handler has called processComparison
ProcessComparisonCalled ==
  pc \in {"scoreOptions", "calculateWeightedScores", "rankOptions",
          "generateTradeOffAnalysis", "generateSummary", "generateExplanations", "done"}
\* v is a string other than ""
NonEmptyString(v) == v.t = "string" /\ Len(v.s) > 0
\* entry e of an options array is an object with a non-empty string id, a
\* non-empty string name and a non-empty object features
OptionWellFormed(e) ==
  /\ e.t = "object"
  /\ {"id", "name", "features"} \subseteq DOMAIN e.o
  /\ NonEmptyString(e.o.id)
  /\ NonEmptyString(e.o.name)
  /\ e.o.features.t = "object"
  /\ DOMAIN e.o.features.o # {}
\* two entries of an options array are objects with the same id
SharedId(opts) ==
  \E i, j \in 1..Len(opts.a) :
     /\ i < j
     /\ opts.a[i].t = "object" /\ opts.a[j].t = "object"
     /\ "id" \in DOMAIN opts.a[i].o /\ "id" \in DOMAIN opts.a[j].o
     /\ opts.a[i].o.id = opts.a[j].o.id
\* the options are one option, or have an object without id or name, or two
\* objects with the same id
OptionsFlawed(opts) ==
  /\ opts.t = "array"
  /\ \/ Len(opts.a) = 1
     \/ \E i \in 1..Len(opts.a) :
          opts.a[i].t = "object" /\ ~({"id", "name"} \subseteq DOMAIN opts.a[i].o)
     \/ SharedId(opts)

\* C13: validateRequest returns valid = true only if options is an array of at
\* least 2 objects, each with a non-empty string id, a non-empty string name
\* and a non-empty object features, no two sharing an id; a request with one
\* option, a missing id or name, or a duplicated id is never passed to
\* processComparison, and when validateRequest returns for it, it returns
\* valid = false and at least one error.
C13_OptionsValidated ==
  /\ (Validated /\ validation.valid) =>
       /\ RequestOptions.t = "array"
       /\ Len(RequestOptions.a) >= 2
       /\ \A i \in 1..Len(RequestOptions.a) : OptionWellFormed(RequestOptions.a[i])
       /\ ~SharedId(RequestOptions)
  /\ (req.method = "POST" /\ BodyGiven(req) /\ OptionsFlawed(RequestOptions)) =>
       /\ ~ProcessComparisonCalled
       /\ Validated => (~validation.valid /\ Len(validation.errors) >= 1)
\* validateRequest returned valid = true for a request of two options, and
\* the handler answered
C13_Witness ==
  /\ Validated /\ validation.valid
  /\ Len(RequestOptions.a) = 2
  /\ Len(res) = 1

\* v is a number with an integer value of at least 1
PositiveInteger(v) == v.t = "number" /\ v.n % v.d = 0 /\ v.n >= v.d

\* C14: validateRequest returns valid = true only if settings.algorithm is
\* absent or 'weighted_sum' and settings.max_results is absent or a positive
\* integer; processComparison is never called, and no response reports
\* algorithm_used, for another algorithm.
C14_OnlyWeightedSum ==
  /\ (Validated /\ validation.valid /\ RequestSettings.t = "object") =>
       /\ Get(RequestSettings, "algorithm") \in {Undefined, WeightedSum}
       /\ \/ Get(RequestSettings, "max_results") = Undefined
          \/ PositiveInteger(Get(RequestSettings, "max_results"))
  /\ (ProcessComparisonCalled /\ settings # Null) =>
       GetNestedValue(settings, "algorithm") \in {Undefined, WeightedSum}
  /\ \A k \in 1..Len(res) :
       res[k].statusCode = 200 => res[k].json.metadata.algorithm_used = WeightedSum

\* entry e of a priorities array is an object with a string criteria, a
\* numeric weight in [0,1] and an optimization of minimize or maximize
PriorityWellFormed(e) ==
  /\ e.t = "object"
  /\ {"criteria", "weight", "optimization"} \subseteq DOMAIN e.o
  /\ e.o.criteria.t = "string"
  /\ e.o.weight.t = "number"
  /\ 0 <= e.o.weight.n /\ e.o.weight.n <= e.o.weight.d
  /\ e.o.optimization \in {Str(<<"minimize">>), Str(<<"maximize">>)}
\* the sum of the weights of well-formed priorities, as a rational
WeightTotal(prios) == SumOf(Array([i \in 1..Len(prios.a) |-> prios.a[i].o.weight]))

\* C15: validateRequest returns valid = true only if there is at least one
\* priority, every priority has a numeric weight in [0,1] and optimization
\* minimize or maximize, the weights sum to 1 within 0.01, no criterion is
\* repeated, and every priority's criteria is a key of some option's features.
C15_PrioritiesValidated ==
  (Validated /\ validation.valid) =>
    /\ RequestPriorities.t = "array"
    /\ Len(RequestPriorities.a) >= 1
    /\ \A i \in 1..Len(RequestPriorities.a) : PriorityWellFormed(RequestPriorities.a[i])
    /\ Hundred * Abs(WeightTotal(RequestPriorities).n - WeightTotal(RequestPriorities).d)
         <= WeightTotal(RequestPriorities).d
    /\ \A i, j \in 1..Len(RequestPriorities.a) :
         i # j => RequestPriorities.a[i].o.criteria # RequestPriorities.a[j].o.criteria
    /\ \A i \in 1..Len(RequestPriorities.a) :
         \E k \in 1..Len(RequestOptions.a) :
            KeyOf(RequestPriorities.a[i].o.criteria) \in DOMAIN RequestOptions.a[k].o.features.o
\* validateRequest returned valid = true for a request of two priorities, and
\* the handler answered
C15_Witness ==
  /\ Validated /\ validation.valid
  /\ Len(RequestPriorities.a) = 2
  /\ Len(res) = 1

\* the request is one validateRequest reports errors for, or would were it to
\* return: its options, constraints, priorities or settings are malformed
ValidationFailure ==
  /\ req.method = "POST"
  /\ BodyGiven(req)
  /\ \/ ValidateRequest(Destructured(req.body)).threw
     \/ ~ValidateRequest(Destructured(req.body)).valid

\* C16: the handler sends exactly one response per request: 405 for a
\* non-POST method; 400 when the body is empty or validateRequest reports
\* valid = false, scoreOptions not being invoked; 500 when processComparison
\* throws; 200 with status "success" otherwise.  A fault of processing is
\* never answered 400 and a validation failure is never answered 500.
C16_OneResponsePerRequest ==
  /\ Len(res) <= 1
  /\ pc = "responded" =>
       /\ Len(res) = 1
       /\ res[1].statusCode =
            (IF req.method # "POST" THEN 405
             ELSE IF ~BodyGiven(req) THEN 400
             ELSE IF Validated /\ ~validation.valid THEN 400
             ELSE IF Validated /\ settings = Null THEN 500
             ELSE 200)
       /\ res[1].statusCode = 200 => res[1].json.status = "success"
       /\ res[1].statusCode \in {405, 400} => constraintResults = NotYet
       /\ res[1].statusCode = 500 =>
            res[1].json.message = "Internal server error during comparison processing"
       /\ ValidationFailure => res[1].statusCode # 500
       /\ (Validated /\ validation.valid) => res[1].statusCode # 400

PostgresDynamoRequest ==
  /\ options = PostgresDynamoOptions
  /\ constraints = PostgresDynamoConstraints
  /\ priorities = PostgresDynamoPriorities
  /\ settings = PostgresDynamoSettings

ScoresCalculated ==
  pc \in {"rankOptions", "generateTradeOffAnalysis", "generateSummary",
          "generateExplanations", "done"} /\ scoredOptions # NotYet
\* the values of criterion c over the options that pass the required constraints
PassingValues(c) ==
  {options[i].features[c] :
     i \in {k \in 1..Len(options) : MeetsRequired(options[k]) /\ c \in DOMAIN options[k].features}}
\* the least and the greatest of a non-empty set of numbers
Lowest(values) == CHOOSE v \in values : \A w \in values : NumLte(v, w)
Highest(values) == CHOOSE v \in values : \A w \in values : NumLte(w, v)

OtherValues == {Num(0), Num(20)}
\* the features f with the priority criteria changed: one criterion to another
\* value, or all of them to the same other value
ChangedFeatures(f) ==
  LET crit == {priorities[p].criteria : p \in 1..Len(priorities)} \cap DOMAIN f
  IN {[f EXCEPT ![c] = v] : c \in crit, v \in OtherValues}
     \cup {Object([k \in DOMAIN f |-> IF k \in crit THEN v ELSE f[k]]) : v \in OtherValues}
\* the requests that differ from this one in the priority-criterion values of
\* one option which fails a required constraint in both
RequestsChangingExcluded ==
  {Array([k \in 1..Len(options) |->
      IF k = i THEN [options[i] EXCEPT !.features = g] ELSE options[k]]) :
     <<i, g>> \in {x \in (1..Len(options)) \X UNION {ChangedFeatures(options[k].features) :
                                                   k \in 1..Len(options)} :
                     /\ ~MeetsRequired(options[x[1]])
                     /\ x[2] \in ChangedFeatures(options[x[1]].features)
                     /\ ~MeetsRequired([options[x[1]] EXCEPT !.features = x[2]])}}

\* C20: options excluded by a required constraint never influence scoring:
\* a request that differs only in the priority-criterion feature values of an
\* option failing a required constraint in both gets the same rankedOptions
\* (order, ranks, normalizedValue, score, totalScore, comparison labels).
C20_ExcludedDoNotInfluence ==
  pc = "generateTradeOffAnalysis" =>
    \A other \in RequestsChangingExcluded :
       ScoreOptionsOf(other, constraints, priorities, settings).rankedOptions
         = scoringResults.rankedOptions
\* scoreOptions returned a ranking of two options for a request whose third
\* option is excluded and can be changed while staying excluded
C20_Witness ==
  /\ pc = "generateTradeOffAnalysis"
  /\ Len(scoringResults.rankedOptions) = 2
  /\ RequestsChangingExcluded # {}

\* every option passing the required constraints holds a number at criterion
\* c, and the same one
SameValueWhenPassing(c) ==
  /\ Passing # {}
  /\ \A k \in Passing :
        /\ c \in DOMAIN options[k].features
        /\ IsNumber(options[k].features[c])
  /\ \A k, l \in Passing : NumEq(options[k].features[c], options[l].features[c])
\* the sum of score * weight over the priorities the option has a score for,
\* in 1/10000
WeightedScores(scored) ==
  SumInts(Array([p \in 1..Len(priorities) |->
     IF priorities[p].criteria \in DOMAIN scored.criteriaScores
     THEN scored.criteriaScores[priorities[p].criteria].score * priorities[p].weight
     ELSE 0]))

ReferenceEvaluation(value, operator, operand) ==
  /\ value \notin {Undefined, Null}
  /\ operator \in {"lt", "lte", "gt", "gte", "eq", "neq", "in", "contains"}
  /\ operator = "lt" => NumLt(ToNumber(value), ToNumber(operand))
  /\ operator = "lte" => NumLte(ToNumber(value), ToNumber(operand))
  /\ operator = "gt" => NumLt(ToNumber(operand), ToNumber(value))
  /\ operator = "gte" => NumLte(ToNumber(operand), ToNumber(value))
  /\ operator = "eq" => StrictEquals(value, operand)
  /\ operator = "neq" => ~StrictEquals(value, operand)
  /\ operator = "in" =>
        /\ operand.t = "array"
        /\ \E e \in {operand.a[i] : i \in 1..Len(operand.a)} : StrictEquals(e, value)
  /\ operator = "contains" =>
        LET hay == ToLowerCase(JsString(value))
            needle == ToLowerCase(JsString(operand))
        IN \E i \in 1..(Len(hay) + 1) :
              /\ i + Len(needle) - 1 <= Len(hay)
              /\ SubSeq(hay, i, i + Len(needle) - 1) = needle
\* applyConstraints has reported on every option
ConstraintsApplied == pc # "scoreOptions"
\* what option k holds at the criterion of constraint j (undefined when it has no such key)
ValueAt(k, j) ==
  IF constraints[j].criteria \in DOMAIN options[k].features
  THEN options[k].features[constraints[j].criteria]
  ELSE Undefined

\* C22: evaluateConstraint agrees with the reference for every value, operand
\* and operator: every constraint reason applyConstraints records for an option
\* is "passed" exactly when the reference evaluation of the option's value
\* against the operand holds (false for an absent value under every operator,
\* numeric comparison of Number(value) and Number(operand), strict equality,
\* array membership, case-insensitive containment of the strings, false for an
\* operator outside the eight)
C22_EvaluateConstraintAgrees ==
  ConstraintsApplied =>
    \A k \in 1..Len(options) : \A j \in 1..Len(constraints) :
       LET report == ComplianceResult(options[k], constraints)
           recorded == constraintResults.allResults[options[k].id]
       IN /\ (\A l \in 1..Len(options) : l # k => options[l].id # options[k].id)
               => recorded = report
          /\ report.constraintReasons[j].status =
               IF ReferenceEvaluation(ValueAt(k, j), constraints[j].operator,
                                      constraints[j].value)
               THEN "passed" ELSE "failed"
          /\ EvaluateConstraint(options[k], constraints[j])
               = ReferenceEvaluation(ValueAt(k, j), constraints[j].operator,
                                     constraints[j].value)
\* applyConstraints has evaluated "neq" on an option lacking the attribute and
\* failed it, while the option holding a different value passes
C22_Witness ==
  /\ ConstraintsApplied
  /\ Len(constraints) = 1
  /\ constraints[1].operator = "neq"
  /\ "tier" \notin DOMAIN options[1].features
  /\ constraintResults.allResults[options[1].id].constraintReasons[1].status = "failed"
  /\ constraintResults.allResults[options[2].id].constraintReasons[1].status = "passed"

\* the constraints with every omitted required flag written out as true
WithRequiredWritten(cs) ==
  [j \in 1..Len(cs) |->
     IF cs[j].required = "omitted" THEN [cs[j] EXCEPT !.required = "true"] ELSE cs[j]]
\* the constraints option k fails, in the constraints' order
Failing(k) ==
  SelectSeq([j \in 1..Len(constraints) |-> j],
            LAMBDA j : ~EvaluateConstraint(options[k], constraints[j]))

\* C23: a constraint that omits required gates like required: true; for every
\* option, passed is true iff no constraint whose required is not false fails,
\* failedConstraints lists the criteria of every failing constraint, optional
\* ones included, and an option failing only optional constraints is scored and
\* ranked.
C23_OmittedRequiredGates ==
  /\ ConstraintsApplied =>
       \A k \in 1..Len(options) :
          LET report == constraintResults.allResults[options[k].id]
          IN /\ report.passed = (k \in Passing)
             /\ report.passed =
                  ComplianceResult(options[k], WithRequiredWritten(constraints)).passed
             /\ report.failedConstraints =
                  [i \in 1..Len(Failing(k)) |-> constraints[Failing(k)[i]].criteria]
  /\ ScoresCalculated =>
       \A k \in Passing : \E i \in 1..Len(scoredOptions) :
          scoredOptions[i].optionId = options[k].id
  /\ ScoreOptionsReturned =>
       \A k \in Passing : \E i \in 1..Len(rankedOptions) :
          /\ rankedOptions[i].optionId = options[k].id
          /\ rankedOptions[i].rank = i
          /\ rankedOptions[i].constraintCompliance.failedConstraints =
               [l \in 1..Len(Failing(k)) |-> constraints[Failing(k)[l]].criteria]
\* one option fails a constraint that omits required and is left out, the other
\* passes it and is ranked
C23_Witness ==
  /\ pc = "done"
  /\ constraints[1].required = "omitted"
  /\ Failing(1) = <<1>>
  /\ constraintResults.allResults[options[1].id].passed = FALSE
  /\ constraintResults.allResults[options[1].id].failedConstraints = <<"tier">>
  /\ Len(rankedOptionsWithTradeOffs) = 1
  /\ rankedOptionsWithTradeOffs[1].optionId = options[2].id
\* an option fails only a constraint with required: false and is ranked
C23_OptionalWitness ==
  /\ pc = "done"
  /\ constraints[1].required = "false"
  /\ Failing(1) = <<1>>
  /\ \E i \in 1..Len(rankedOptionsWithTradeOffs) :
        /\ rankedOptionsWithTradeOffs[i].optionId = options[1].id
        /\ rankedOptionsWithTradeOffs[i].constraintCompliance.failedConstraints = <<"tier">>

\* the impact the table assigns to a score given in hundredths
TableImpact(score) ==
  IF score >= 60 * Hundred THEN "positive"
  ELSE IF score >= 40 * Hundred THEN "neutral"
  ELSE "negative"
\* the performance level the table assigns to a score given in hundredths
TableLevel(score, optimization) ==
  LET row == IF score >= 80 * Hundred THEN 1
             ELSE IF score >= 60 * Hundred THEN 2
             ELSE IF score >= 40 * Hundred THEN 3
             ELSE IF score >= 20 * Hundred THEN 4
             ELSE 5
  IN IF optimization = "minimize"
     THEN <<"very low", "low", "average", "high", "very high">>[row]
     ELSE <<"excellent", "good", "average", "below average", "poor">>[row]
\* the optimization of the priority a reason is about
OptimizationOf(criteria) ==
  (CHOOSE p \in {priorities[j] : j \in 1..Len(priorities)} : p.criteria = criteria).optimization

\* C24: for every non-missing reason emitted by scoring, impact, status and
\* details.performanceLevel are what the table assigns to the score reported in
\* the reason's details.score (>=80 positive excellent/very low, 60-79 positive
\* good/low, 40-59 neutral average, 20-39 negative below average/high, <20
\* negative poor/very high).
C24_LabelsMatchReportedScore ==
  ScoresCalculated =>
    \A i \in 1..Len(scoredOptions) : \A r \in 1..Len(scoredOptions[i].reasons) :
       LET reason == scoredOptions[i].reasons[r]
       IN reason.status # "missing_data" =>
            /\ reason.status = reason.impact
            /\ reason.impact = TableImpact(reason.details.score)
            /\ reason.details.performanceLevel
                 = TableLevel(reason.details.score, OptimizationOf(reason.criteria))

\* the reasons of a ranked option that have the given impact
ReasonsWithImpact(option, impact) ==
  SelectSeq(option.reasons, LAMBDA r : r.impact = impact)
\* entries (strengths or weaknesses, each naming a criterion second) are at most
\* 3, one per reason of the given impact up to that number, and follow those
\* reasons' weightContribution in non-increasing order
TopThreeOf(entries, option, impact) ==
  LET from == ReasonsWithImpact(option, impact)
      reasonOf(e) == CHOOSE r \in {from[i] : i \in 1..Len(from)} : r.criteria = e[2]
  IN /\ Len(entries) = Min(3, Len(from))
     /\ \A k \in 1..Len(entries) : \E i \in 1..Len(from) : from[i].criteria = entries[k][2]
     /\ \A k, l \in 1..Len(entries) :
           k < l => /\ entries[k][2] # entries[l][2]
                    /\ reasonOf(entries[k]).weightContribution
                         >= reasonOf(entries[l]).weightContribution
     /\ \A k \in 1..Len(entries) : \A i \in 1..Len(from) :
           (\A l \in 1..Len(entries) : entries[l][2] # from[i].criteria)
             => from[i].weightContribution <= reasonOf(entries[k]).weightContribution
\* the kind of a keyDifferentiators entry: 1 criterion-based, 2 rank note, 3 the
\* count of failed optional constraints
DifferentiatorKind(entry) ==
  IF entry[1] \in {"superior", "inferior"} THEN 1
  ELSE IF entry[1] = "Fails" THEN 3
  ELSE 2

ScoredOn(c) ==
  {i \in 1..Len(rankedOptionsWithTradeOffs) :
     c \in DOMAIN rankedOptionsWithTradeOffs[i].criteriaScores}
\* the sum, in hundredths, of the scores the ranked options hold for criterion c
RECURSIVE ScoreSum(_, _)
ScoreSum(c, among) ==
  IF among = {} THEN 0
  ELSE LET i == CHOOSE j \in among : TRUE
       IN rankedOptionsWithTradeOffs[i].criteriaScores[c].score + ScoreSum(c, among \ {i})
\* by how much, in hundredths times the number of scores, the score of ranked
\* option i for criterion c exceeds the mean of the scores for c
DeviationTimesCount(i, c) ==
  Cardinality(ScoredOn(c)) * rankedOptionsWithTradeOffs[i].criteriaScores[c].score
    - ScoreSum(c, ScoredOn(c))
\* the differentiator candidates of ranked option i, before the cap of 4
Candidates(i) ==
  CriteriaDifferentiators(rankedOptionsWithTradeOffs[i], rankedOptionsWithTradeOffs)
    \o ContextualNotes(rankedOptionsWithTradeOffs[i])
\* the candidates of ranked option i hold an entry of the given direction for c
HasEntry(i, direction, c) ==
  \E k \in 1..Len(Candidates(i)) :
     Candidates(i)[k][1] = direction /\ Candidates(i)[k][2] = c

\* C26: for every ranked option and every criterion in its criteriaScores, the
\* differentiator candidates (before the cap of 4) hold a "superior" entry for
\* the criterion iff the option's score exceeds the mean of the criterion's
\* scores over the ranked options by more than 20 points, an "inferior" entry
\* iff it lies more than 20 points below that mean, and no entry otherwise; the
\* reported keyDifferentiators are the first 4 candidates.
C26_DifferentiatorsBeyondTwenty ==
  TradeOffsBuilt =>
    \A i \in 1..Len(rankedOptionsWithTradeOffs) :
       /\ rankedOptionsWithTradeOffs[i].tradeOffs.keyDifferentiators
            = SubSeq(Candidates(i), 1, Min(4, Len(Candidates(i))))
       /\ \A c \in DOMAIN rankedOptionsWithTradeOffs[i].criteriaScores :
            /\ HasEntry(i, "superior", c)
                 <=> DeviationTimesCount(i, c) > 20 * Hundred * Cardinality(ScoredOn(c))
            /\ HasEntry(i, "inferior", c)
                 <=> 0 - DeviationTimesCount(i, c) > 20 * Hundred * Cardinality(ScoredOn(c))
            /\ Cardinality({k \in 1..Len(Candidates(i)) :
                              /\ Candidates(i)[k][1] \in {"superior", "inferior"}
                              /\ Candidates(i)[k][2] = c}) <= 1
\* three options score 0, 80 and 100 on the only criterion: the mean is 60, the
\* first is inferior, the last superior, and the one 20 points above the mean has
\* no entry
C26_Witness ==
  /\ TradeOffsBuilt
  /\ Len(rankedOptionsWithTradeOffs) = 3
  /\ \E i \in 1..3 :
        /\ rankedOptionsWithTradeOffs[i].criteriaScores["cost"].score = 80 * Hundred
        /\ DeviationTimesCount(i, "cost") = 3 * 20 * Hundred
        /\ ~HasEntry(i, "superior", "cost")
        /\ \A k \in 1..Len(rankedOptionsWithTradeOffs[i].tradeOffs.keyDifferentiators) :
              rankedOptionsWithTradeOffs[i].tradeOffs.keyDifferentiators[k][1]
                \notin {"superior", "inferior"}
  /\ \E i \in 1..3 : rankedOptionsWithTradeOffs[i].tradeOffs.keyDifferentiators[1][1] = "superior"
  /\ \E i \in 1..3 : rankedOptionsWithTradeOffs[i].tradeOffs.keyDifferentiators[1][1] = "inferior"

\* C27: whenever at least two options pass the required constraints,
\* summary.topRecommendation.confidence is 0.5 + min(gap / 100, 0.5) rounded to
\* two decimals, gap being the totalScore of rank 1 minus that of rank 2 in the
\* full ranking, whatever settings.max_results is; 1.0 is the fixed value only
\* when a single option qualifies.
C27_ConfidenceFromFullRanking ==
  (SummaryBuilt /\ Cardinality(Passing) >= 2) =>
    LET gap == FullRanking[1].totalScore - FullRanking[2].totalScore
    IN /\ summary.topRecommendation # Null
       /\ summary.topRecommendation.confidence
            = RoundHalfUp(50 * Hundred + Min(gap, 50 * Hundred), Hundred)

\* option k holds a number at the criterion of every priority
NumericOnPriorities(k) ==
  \A p \in 1..Len(priorities) :
     /\ priorities[p].criteria \in DOMAIN options[k].features
     /\ IsNumber(options[k].features[priorities[p].criteria])
\* option a's raw value is at least as good as option b's on every priority
AtLeastAsGood(a, b) ==
  \A p \in 1..Len(priorities) :
     LET va == options[a].features[priorities[p].criteria]
         vb == options[b].features[priorities[p].criteria]
     IN IF priorities[p].optimization = "minimize" THEN NumLte(va, vb) ELSE NumLte(vb, va)
\* the place of option k in the full ranking
PlaceOf(k) == CHOOSE i \in 1..Len(FullRanking) : FullRanking[i].optionId = options[k].id

\* C28: dominance is respected: for any two options A and B that pass the
\* required constraints and hold numbers at every priority criterion, if A's
\* raw value is at least as good as B's on every priority then A.totalScore >=
\* B.totalScore, and B is ranked above A only when the totals are equal and B
\* precedes A in the input.
C28_DominanceRespected ==
  ScoreOptionsReturned =>
    \A a, b \in Passing :
       (a # b /\ NumericOnPriorities(a) /\ NumericOnPriorities(b) /\ AtLeastAsGood(a, b))
         => /\ FullRanking[PlaceOf(a)].totalScore >= FullRanking[PlaceOf(b)].totalScore
            /\ PlaceOf(b) < PlaceOf(a) =>
                 /\ FullRanking[PlaceOf(a)].totalScore = FullRanking[PlaceOf(b)].totalScore
                 /\ b < a
\* the second option of the input is better than the first on one priority and
\* equal on the other, and is ranked first with the greater total
C28_Witness ==
  /\ ScoreOptionsReturned
  /\ Len(priorities) = 2
  /\ {1, 2} \subseteq Passing
  /\ NumericOnPriorities(1) /\ NumericOnPriorities(2)
  /\ AtLeastAsGood(2, 1) /\ ~AtLeastAsGood(1, 2)
  /\ PlaceOf(2) < PlaceOf(1)
  /\ FullRanking[PlaceOf(2)].totalScore > FullRanking[PlaceOf(1)].totalScore

\* the constraint evaluator treats what option k holds at criterion c as absent
AbsentAt(k, c) ==
  \/ c \notin DOMAIN options[k].features
  \/ options[k].features[c] \in {Undefined, Null}
\* the scored option of the passing input option k
ScoredOf(k) ==
  scoredOptions[CHOOSE i \in 1..Len(scoredOptions) : scoredOptions[i].optionId = options[k].id]

\* C29: absence is treated alike by both stages: a feature value the constraint
\* evaluator treats as absent (undefined or null) is never given a criterion
\* score; for a passing option whose feature at a priority's criterion is null
\* or undefined, scoring yields a missing_data reason, no criteriaScores entry
\* and no contribution to totalScore, while evaluateConstraint fails every
\* constraint on that criterion.
C29_AbsenceTreatedAlike ==
  ScoresCalculated =>
    \A k \in Passing : \A p \in 1..Len(priorities) :
       AbsentAt(k, priorities[p].criteria) =>
         /\ \A j \in 1..Len(constraints) :
               constraints[j].criteria = priorities[p].criteria
                 => ~EvaluateConstraint(options[k], constraints[j])
         /\ priorities[p].criteria \notin DOMAIN ScoredOf(k).criteriaScores
         /\ ScoredOf(k).reasons[p].status = "missing_data"
         /\ ScoredOf(k).reasons[p].weightContribution = 0
         /\ ScoredOf(k).totalScore = RoundHalfUp(WeightedScores(ScoredOf(k)), Hundred)

\* C30: validateRequest is total: for every request body, arrays holding null
\* or non-object entries included, it returns {valid, errors, errorCount,
\* message} with valid = (errors is empty) and errorCount = errors.length and
\* never throws, so that a malformed request is answered 400 with its error
\* list and not 500.
C30_ValidateRequestTotal ==
  (req # NotYet /\ pc # "handler" /\ req.method = "POST" /\ BodyGiven(req)) =>
    LET result == ValidateRequest(Destructured(req.body))
    IN /\ ~result.threw
       /\ result.valid = (result.errors = <<>>)
       /\ result.errorCount = Len(result.errors)
       /\ result.message = IF result.valid THEN "Valid input" ELSE "Validation failed"
       /\ (pc = "responded" /\ ~result.valid) =>
            /\ res[1].statusCode = 400
            /\ res[1].json.errors = result.errors
====
